---------------------------- MODULE Spec2Model ----------------------------
(***************************************************************************)
(* Model of dxr/query.py: the query grammar and its visitor, the filter    *)
(* registry and the filter classes, plan synthesis and result shaping in   *)
(* Query.results, execute_sql and its profile, and Query.direct_result.    *)
(*                                                                         *)
(* Text is modelled as a sequence of tokens.  Characters typed by the user *)
(* are one token each; a literal of the source (an SQL fragment, a scheme  *)
(* prefix such as "substr:") is one token; the SQL placeholder "?" is      *)
(* always a token of its own.  A Python dict is a function whose domain is *)
(* the set of its keys.                                                    *)
(***************************************************************************)
EXTENDS Integers, Sequences, FiniteSets, TLC

VARIABLES
    querystr,           \* argument of Query.__init__
    is_case_sensitive,  \* argument of Query.__init__
    typed,              \* history: the term shapes the query string was typed from
    pc,                 \* position of the caller in the life of the Query
    terms,              \* Query.terms
    offset, limit,      \* arguments of Query.results
    fidx,               \* index, in the consulted list, of the filter being iterated
    pending,            \* contributions the current filter's generator has yet to yield
    fields, tables, conditions, orderings, arguments, has_lines,
    sql,                \* the SQL text handed to execute_sql
    contribs,           \* history: the contributions processed so far
    called,             \* the filter method a direct caller applied
    yielded,            \* what that filter method yielded
    should_explain,     \* Query._should_explain
    sql_profile,        \* Query._sql_profile
    calls,              \* history: the calls of Query.results begun so far
    executed,           \* history: the statements this call handed to conn.execute
    store_rows,         \* the rows the store holds for the statement of the plan
    fetched,            \* how many of them have been fetched from the cursor
    out,                \* history: what this call of Query.results has yielded
    first,              \* history: offset and output of the first finished call
    cursors,            \* the cursors opened and not closed
    dr_term,            \* local term of Query.direct_result
    line_number,        \* local of Query.direct_result
    lookups,            \* history: the lookups direct_result has issued
    result,             \* what direct_result returned
    objects,            \* several Query objects at once: the fields and the locals of each
    profiles            \* ... and the list each of them has as its _sql_profile

input == <<querystr, is_case_sensitive, typed>>

plan == <<fields, tables, conditions, orderings, arguments, has_lines>>

run == <<should_explain, sql_profile, calls, executed, store_rows, fetched, out,
         first, cursors>>

direct == <<dr_term, line_number, lookups, result>>

pair == <<objects, profiles>>

vars == <<pair, input, pc, terms, offset, limit, fidx, pending, plan, sql, contribs,
          called, yielded, run, direct>>

---------------------------------------------------------------------------
(* Bounds of the model *)

MaxTerms == 2
MaxRawLen == 4
MaxExtentsQueries == 2
MaxRows == 3
MaxCalls == 2
MaxEscapeLen == 3
MaxPairRows == 1

---------------------------------------------------------------------------
(* Sequence helpers standing for Python built-ins *)

\* the value of a set of one element: Only({e(x) : x \in {v}}) is e(v)
Only(S) == CHOOSE x \in S : TRUE

RECURSIVE Flatten(_)
Flatten(ss) == IF ss = <<>> THEN <<>> ELSE Head(ss) \o Flatten(Tail(ss))

\* sep.join(parts)
RECURSIVE Join(_, _)
Join(sep, parts) ==
    IF parts = <<>> THEN <<>>
    ELSE IF Len(parts) = 1 THEN parts[1]
    ELSE parts[1] \o sep \o Join(sep, Tail(parts))

StartsWith(s, p, w) ==
    /\ p + Len(w) - 1 <= Len(s)
    /\ SubSeq(s, p, p + Len(w) - 1) = w

\* s.replace(old, new): leftmost, non-overlapping occurrences
RECURSIVE Replace(_, _, _)
Replace(s, old, new) ==
    IF s = <<>> THEN <<>>
    ELSE IF StartsWith(s, 1, old)
         THEN new \o Replace(SubSeq(s, Len(old) + 1, Len(s)), old, new)
         ELSE <<s[1]>> \o Replace(Tail(s), old, new)

\* d.get(key, [])
Get(d, key) == IF key \in DOMAIN d THEN d[key] ELSE <<>>

CountOf(tok, s) == Cardinality({i \in DOMAIN s : s[i] = tok})

---------------------------------------------------------------------------
(* like_escape *)

\* like_escape with the backslash replaced after the other four
like_escape_BackslashLast(val) ==
    Replace(Replace(Replace(Replace(Replace(val,
        <<"_">>, <<"\\", "_">>),
        <<"%">>, <<"\\", "%">>),
        <<"?">>, <<"_">>),
        <<"*">>, <<"%">>),
        <<"\\">>, <<"\\", "\\">>)

like_escape(val) ==
    Replace(Replace(Replace(Replace(Replace(val,
        <<"\\">>, <<"\\", "\\">>),
        <<"_">>, <<"\\", "_">>),
        <<"%">>, <<"\\", "%">>),
        <<"?">>, <<"_">>),
        <<"*">>, <<"%">>)

---------------------------------------------------------------------------
(* The filter registry.  filter_sql and ext_sql are the text before and    *)
(* after the %s of the source template, white space normalised.            *)

filters ==
  <<[cls |-> "SimpleFilter", param |-> "path", has_lines |-> FALSE,
     filter_sql |-> <<"files.path LIKE ", "?", " ESCAPE \"\\\" ">>,
     neg_filter_sql |-> <<"files.path NOT LIKE ", "?", " ESCAPE \"\\\" ">>],
    [cls |-> "SimpleFilter", param |-> "ext", has_lines |-> FALSE,
     filter_sql |-> <<"files.path LIKE ", "?", " ESCAPE \"\\\" ">>,
     neg_filter_sql |-> <<"files.path NOT LIKE ", "?", " ESCAPE \"\\\" ">>],
    [cls |-> "TriliteSearchFilter", params |-> <<"text", "regexp">>, has_lines |-> TRUE],
    [cls |-> "ExistsLikeFilter", param |-> "function", has_lines |-> TRUE,
     filter_sql |-> <<"SELECT 1 FROM functions WHERE ", " AND functions.file_id = files.id ">>,
     ext_sql |-> <<"SELECT functions.extent_start, functions.extent_end FROM functions WHERE functions.file_id = ? AND ", " ORDER BY functions.extent_start ">>,
     qual_name |-> "functions.qualname", like_name |-> "functions.name"],
    [cls |-> "ExistsLikeFilter", param |-> "function-ref", has_lines |-> TRUE,
     filter_sql |-> <<"SELECT 1 FROM functions, function_refs AS refs WHERE ", " AND functions.id = refs.refid AND refs.file_id = files.id ">>,
     ext_sql |-> <<"SELECT refs.extent_start, refs.extent_end FROM function_refs AS refs WHERE refs.file_id = ? AND EXISTS (SELECT 1 FROM functions WHERE ", " AND functions.id = refs.refid) ORDER BY refs.extent_start ">>,
     qual_name |-> "functions.qualname", like_name |-> "functions.name"],
    [cls |-> "ExistsLikeFilter", param |-> "function-decl", has_lines |-> TRUE,
     filter_sql |-> <<"SELECT 1 FROM functions, function_decldef as decldef WHERE ", " AND functions.id = decldef.defid AND decldef.file_id = files.id ">>,
     ext_sql |-> <<"SELECT decldef.extent_start, decldef.extent_end FROM function_decldef AS decldef WHERE decldef.file_id = ? AND EXISTS (SELECT 1 FROM functions WHERE ", " AND functions.id = decldef.defid) ORDER BY decldef.extent_start ">>,
     qual_name |-> "functions.qualname", like_name |-> "functions.name"],
    [cls |-> "UnionFilter", param |-> "callers", has_lines |-> TRUE,
     filters |-> <<
        [cls |-> "ExistsLikeFilter", param |-> "callers", has_lines |-> TRUE,
         filter_sql |-> <<"SELECT 1 FROM functions as caller, functions as target, callers WHERE ", " AND callers.targetid = target.id AND callers.callerid = caller.id AND caller.file_id = files.id ">>,
         ext_sql |-> <<"SELECT functions.extent_start, functions.extent_end FROM functions WHERE functions.file_id = ? AND EXISTS (SELECT 1 FROM functions as target, callers WHERE ", " AND callers.targetid = target.id AND callers.callerid = functions.id ) ORDER BY functions.extent_start ">>,
         qual_name |-> "target.qualname", like_name |-> "target.name"],
        [cls |-> "ExistsLikeFilter", param |-> "callers", has_lines |-> TRUE,
         filter_sql |-> <<"SELECT 1 FROM functions as caller, functions as target, callers, targets WHERE ", " AND targets.funcid = target.id AND targets.targetid = callers.targetid AND callers.callerid = caller.id AND caller.file_id = files.id ">>,
         ext_sql |-> <<"SELECT functions.extent_start, functions.extent_end FROM functions WHERE functions.file_id = ? AND EXISTS (SELECT 1 FROM functions as target, callers, targets WHERE ", " AND targets.funcid = target.id AND targets.targetid = callers.targetid AND callers.callerid = functions.id ) ORDER BY functions.extent_start ">>,
         qual_name |-> "target.qualname", like_name |-> "target.name"]>>],
    [cls |-> "UnionFilter", param |-> "called-by", has_lines |-> TRUE,
     filters |-> <<
        [cls |-> "ExistsLikeFilter", param |-> "called-by", has_lines |-> TRUE,
         filter_sql |-> <<"SELECT 1 FROM functions as target, functions as caller, callers WHERE ", " AND callers.callerid = caller.id AND callers.targetid = target.id AND target.file_id = files.id ">>,
         ext_sql |-> <<"SELECT functions.extent_start, functions.extent_end FROM functions WHERE functions.file_id = ? AND EXISTS (SELECT 1 FROM functions as caller, callers WHERE ", " AND caller.id = callers.callerid AND callers.targetid = functions.id ) ORDER BY functions.extent_start ">>,
         qual_name |-> "caller.qualname", like_name |-> "caller.name"],
        [cls |-> "ExistsLikeFilter", param |-> "called-by", has_lines |-> TRUE,
         filter_sql |-> <<"SELECT 1 FROM functions as target, functions as caller, callers, targets WHERE ", " AND callers.callerid = caller.id AND targets.funcid = target.id AND targets.targetid = callers.targetid AND target.file_id = files.id ">>,
         ext_sql |-> <<"SELECT functions.extent_start, functions.extent_end FROM functions WHERE functions.file_id = ? AND EXISTS (SELECT 1 FROM functions as caller, callers, targets WHERE ", " AND caller.id = callers.callerid AND targets.funcid = functions.id AND targets.targetid = callers.targetid ) ORDER BY functions.extent_start ">>,
         qual_name |-> "caller.qualname", like_name |-> "caller.name"]>>],
    [cls |-> "UnionFilter", param |-> "type", has_lines |-> TRUE,
     filters |-> <<
        [cls |-> "ExistsLikeFilter", param |-> "type", has_lines |-> TRUE,
         filter_sql |-> <<"SELECT 1 FROM types WHERE ", " AND types.file_id = files.id ">>,
         ext_sql |-> <<"SELECT types.extent_start, types.extent_end FROM types WHERE types.file_id = ? AND ", " ORDER BY types.extent_start ">>,
         qual_name |-> "types.qualname", like_name |-> "types.name"],
        [cls |-> "ExistsLikeFilter", param |-> "type", has_lines |-> TRUE,
         filter_sql |-> <<"SELECT 1 FROM typedefs WHERE ", " AND typedefs.file_id = files.id ">>,
         ext_sql |-> <<"SELECT typedefs.extent_start, typedefs.extent_end FROM typedefs WHERE typedefs.file_id = ? AND ", " ORDER BY typedefs.extent_start ">>,
         qual_name |-> "typedefs.qualname", like_name |-> "typedefs.name"]>>],
    [cls |-> "UnionFilter", param |-> "type-ref", has_lines |-> TRUE,
     filters |-> <<
        [cls |-> "ExistsLikeFilter", param |-> "type-ref", has_lines |-> TRUE,
         filter_sql |-> <<"SELECT 1 FROM types, type_refs AS refs WHERE ", " AND types.id = refs.refid AND refs.file_id = files.id ">>,
         ext_sql |-> <<"SELECT refs.extent_start, refs.extent_end FROM type_refs AS refs WHERE refs.file_id = ? AND EXISTS (SELECT 1 FROM types WHERE ", " AND types.id = refs.refid) ORDER BY refs.extent_start ">>,
         qual_name |-> "types.qualname", like_name |-> "types.name"],
        [cls |-> "ExistsLikeFilter", param |-> "type-ref", has_lines |-> TRUE,
         filter_sql |-> <<"SELECT 1 FROM typedefs, typedef_refs AS refs WHERE ", " AND typedefs.id = refs.refid AND refs.file_id = files.id ">>,
         ext_sql |-> <<"SELECT refs.extent_start, refs.extent_end FROM typedef_refs AS refs WHERE refs.file_id = ? AND EXISTS (SELECT 1 FROM typedefs WHERE ", " AND typedefs.id = refs.refid) ORDER BY refs.extent_start ">>,
         qual_name |-> "typedefs.qualname", like_name |-> "typedefs.name"]>>],
    [cls |-> "ExistsLikeFilter", param |-> "type-decl", has_lines |-> TRUE,
     filter_sql |-> <<"SELECT 1 FROM types, type_decldef AS decldef WHERE ", " AND types.id = decldef.defid AND decldef.file_id = files.id ">>,
     ext_sql |-> <<"SELECT decldef.extent_start, decldef.extent_end FROM type_decldef AS decldef WHERE decldef.file_id = ? AND EXISTS (SELECT 1 FROM types WHERE ", " AND types.id = decldef.defid) ORDER BY decldef.extent_start ">>,
     qual_name |-> "types.qualname", like_name |-> "types.name"],
    [cls |-> "ExistsLikeFilter", param |-> "var", has_lines |-> TRUE,
     filter_sql |-> <<"SELECT 1 FROM variables WHERE ", " AND variables.file_id = files.id ">>,
     ext_sql |-> <<"SELECT variables.extent_start, variables.extent_end FROM variables WHERE variables.file_id = ? AND ", " ORDER BY variables.extent_start ">>,
     qual_name |-> "variables.qualname", like_name |-> "variables.name"],
    [cls |-> "ExistsLikeFilter", param |-> "var-ref", has_lines |-> TRUE,
     filter_sql |-> <<"SELECT 1 FROM variables, variable_refs AS refs WHERE ", " AND variables.id = refs.refid AND refs.file_id = files.id ">>,
     ext_sql |-> <<"SELECT refs.extent_start, refs.extent_end FROM variable_refs AS refs WHERE refs.file_id = ? AND EXISTS (SELECT 1 FROM variables WHERE ", " AND variables.id = refs.refid) ORDER BY refs.extent_start ">>,
     qual_name |-> "variables.qualname", like_name |-> "variables.name"],
    [cls |-> "ExistsLikeFilter", param |-> "var-decl", has_lines |-> TRUE,
     filter_sql |-> <<"SELECT 1 FROM variables, variable_decldef AS decldef WHERE ", " AND variables.id = decldef.defid AND decldef.file_id = files.id ">>,
     ext_sql |-> <<"SELECT decldef.extent_start, decldef.extent_end FROM variable_decldef AS decldef WHERE decldef.file_id = ? AND EXISTS (SELECT 1 FROM variables WHERE ", " AND variables.id = decldef.defid) ORDER BY decldef.extent_start ">>,
     qual_name |-> "variables.qualname", like_name |-> "variables.name"],
    [cls |-> "ExistsLikeFilter", param |-> "macro", has_lines |-> TRUE,
     filter_sql |-> <<"SELECT 1 FROM macros WHERE ", " AND macros.file_id = files.id ">>,
     ext_sql |-> <<"SELECT macros.extent_start, macros.extent_end FROM macros WHERE macros.file_id = ? AND ", " ORDER BY macros.extent_start ">>,
     qual_name |-> "macros.name", like_name |-> "macros.name"],
    [cls |-> "ExistsLikeFilter", param |-> "macro-ref", has_lines |-> TRUE,
     filter_sql |-> <<"SELECT 1 FROM macros, macro_refs AS refs WHERE ", " AND macros.id = refs.refid AND refs.file_id = files.id ">>,
     ext_sql |-> <<"SELECT refs.extent_start, refs.extent_end FROM macro_refs AS refs WHERE refs.file_id = ? AND EXISTS (SELECT 1 FROM macros WHERE ", " AND macros.id = refs.refid) ORDER BY refs.extent_start ">>,
     qual_name |-> "macros.name", like_name |-> "macros.name"],
    [cls |-> "ExistsLikeFilter", param |-> "namespace", has_lines |-> TRUE,
     filter_sql |-> <<"SELECT 1 FROM namespaces WHERE ", " AND namespaces.file_id = files.id ">>,
     ext_sql |-> <<"SELECT namespaces.extent_start, namespaces.extent_end FROM namespaces WHERE namespaces.file_id = ? AND ", " ORDER BY namespaces.extent_start ">>,
     qual_name |-> "namespaces.qualname", like_name |-> "namespaces.name"],
    [cls |-> "ExistsLikeFilter", param |-> "namespace-ref", has_lines |-> TRUE,
     filter_sql |-> <<"SELECT 1 FROM namespaces, namespace_refs AS refs WHERE ", " AND namespaces.id = refs.refid AND refs.file_id = files.id ">>,
     ext_sql |-> <<"SELECT refs.extent_start, refs.extent_end FROM namespace_refs AS refs WHERE refs.file_id = ? AND EXISTS (SELECT 1 FROM namespaces WHERE ", " AND namespaces.id = refs.refid) ORDER BY refs.extent_start ">>,
     qual_name |-> "namespaces.qualname", like_name |-> "namespaces.name"],
    [cls |-> "ExistsLikeFilter", param |-> "namespace-alias", has_lines |-> TRUE,
     filter_sql |-> <<"SELECT 1 FROM namespace_aliases WHERE ", " AND namespace_aliases.file_id = files.id ">>,
     ext_sql |-> <<"SELECT namespace_aliases.extent_start, namespace_aliases.extent_end FROM namespace_aliases WHERE namespace_aliases.file_id = ? AND ", " ORDER BY namespace_aliases.extent_start ">>,
     qual_name |-> "namespace_aliases.qualname", like_name |-> "namespace_aliases.name"],
    [cls |-> "ExistsLikeFilter", param |-> "namespace-alias-ref", has_lines |-> TRUE,
     filter_sql |-> <<"SELECT 1 FROM namespace_aliases, namespace_alias_refs AS refs WHERE ", " AND namespace_aliases.id = refs.refid AND refs.file_id = files.id ">>,
     ext_sql |-> <<"SELECT refs.extent_start, refs.extent_end FROM namespace_alias_refs AS refs WHERE refs.file_id = ? AND EXISTS (SELECT 1 FROM namespace_aliases WHERE ", " AND namespace_aliases.id = refs.refid) ORDER BY refs.extent_start ">>,
     qual_name |-> "namespace_aliases.qualname", like_name |-> "namespace_aliases.name"],
    [cls |-> "ExistsLikeFilter", param |-> "bases", has_lines |-> TRUE,
     filter_sql |-> <<"SELECT 1 FROM types as base, impl, types WHERE ", " AND impl.tbase = base.id AND impl.tderived = types.id AND base.file_id = files.id">>,
     ext_sql |-> <<"SELECT base.extent_start, base.extent_end FROM types as base WHERE base.file_id = ? AND EXISTS (SELECT 1 FROM impl, types WHERE impl.tbase = base.id AND impl.tderived = types.id AND ", " ) ">>,
     qual_name |-> "types.qualname", like_name |-> "types.name"],
    [cls |-> "ExistsLikeFilter", param |-> "derived", has_lines |-> TRUE,
     filter_sql |-> <<"SELECT 1 FROM types as sub, impl, types WHERE ", " AND impl.tbase = types.id AND impl.tderived = sub.id AND sub.file_id = files.id">>,
     ext_sql |-> <<"SELECT sub.extent_start, sub.extent_end FROM types as sub WHERE sub.file_id = ? AND EXISTS (SELECT 1 FROM impl, types WHERE impl.tbase = types.id AND impl.tderived = sub.id AND ", " ) ">>,
     qual_name |-> "types.qualname", like_name |-> "types.name"],
    [cls |-> "UnionFilter", param |-> "member", has_lines |-> TRUE,
     filters |-> <<
        [cls |-> "ExistsLikeFilter", param |-> "member", has_lines |-> TRUE,
         filter_sql |-> <<"SELECT 1 FROM types as type, functions as mem WHERE ", " AND mem.scopeid = type.id AND mem.file_id = files.id ">>,
         ext_sql |-> <<" SELECT extent_start, extent_end FROM functions as mem WHERE mem.file_id = ? AND EXISTS ( SELECT 1 FROM types as type WHERE ", " AND type.id = mem.scopeid) ORDER BY mem.extent_start ">>,
         qual_name |-> "type.qualname", like_name |-> "type.name"],
        [cls |-> "ExistsLikeFilter", param |-> "member", has_lines |-> TRUE,
         filter_sql |-> <<"SELECT 1 FROM types as type, types as mem WHERE ", " AND mem.scopeid = type.id AND mem.file_id = files.id ">>,
         ext_sql |-> <<" SELECT extent_start, extent_end FROM types as mem WHERE mem.file_id = ? AND EXISTS ( SELECT 1 FROM types as type WHERE ", " AND type.id = mem.scopeid) ORDER BY mem.extent_start ">>,
         qual_name |-> "type.qualname", like_name |-> "type.name"],
        [cls |-> "ExistsLikeFilter", param |-> "member", has_lines |-> TRUE,
         filter_sql |-> <<"SELECT 1 FROM types as type, variables as mem WHERE ", " AND mem.scopeid = type.id AND mem.file_id = files.id ">>,
         ext_sql |-> <<" SELECT extent_start, extent_end FROM variables as mem WHERE mem.file_id = ? AND EXISTS ( SELECT 1 FROM types as type WHERE ", " AND type.id = mem.scopeid) ORDER BY mem.extent_start ">>,
         qual_name |-> "type.qualname", like_name |-> "type.name"]>>],
    [cls |-> "ExistsLikeFilter", param |-> "overridden", has_lines |-> TRUE,
     filter_sql |-> <<"SELECT 1 FROM functions as base, functions as derived, targets WHERE ", " AND base.id = -targets.targetid AND derived.id = targets.funcid AND base.id <> derived.id AND base.file_id = files.id ">>,
     ext_sql |-> <<"SELECT functions.extent_start, functions.extent_end FROM functions WHERE functions.file_id = ? AND EXISTS (SELECT 1 FROM functions as derived, targets WHERE ", " AND functions.id = -targets.targetid AND derived.id = targets.funcid AND functions.id <> derived.id ) ORDER BY functions.extent_start ">>,
     qual_name |-> "derived.qualname", like_name |-> "derived.name"],
    [cls |-> "ExistsLikeFilter", param |-> "overrides", has_lines |-> TRUE,
     filter_sql |-> <<"SELECT 1 FROM functions as base, functions as derived, targets WHERE ", " AND base.id = -targets.targetid AND derived.id = targets.funcid AND base.id <> derived.id AND derived.file_id = files.id ">>,
     ext_sql |-> <<"SELECT functions.extent_start, functions.extent_end FROM functions WHERE functions.file_id = ? AND EXISTS (SELECT 1 FROM functions as base, targets WHERE ", " AND base.id = -targets.targetid AND functions.id = targets.funcid AND base.id <> functions.id ) ORDER BY functions.extent_start ">>,
     qual_name |-> "base.qualname", like_name |-> "base.name"],
    [cls |-> "ExistsLikeFilter", param |-> "warning", has_lines |-> TRUE,
     filter_sql |-> <<"SELECT 1 FROM warnings WHERE ", " AND warnings.file_id = files.id ">>,
     ext_sql |-> <<"SELECT warnings.extent_start, warnings.extent_end FROM warnings WHERE warnings.file_id = ? AND ", " ">>,
     qual_name |-> "warnings.msg", like_name |-> "warnings.msg"],
    [cls |-> "ExistsLikeFilter", param |-> "warning-opt", has_lines |-> TRUE,
     filter_sql |-> <<"SELECT 1 FROM warnings WHERE ", " AND warnings.file_id = files.id ">>,
     ext_sql |-> <<"SELECT warnings.extent_start, warnings.extent_end FROM warnings WHERE warnings.file_id = ? AND ", " ">>,
     qual_name |-> "warnings.opt", like_name |-> "warnings.opt"]>>

Chars ==
  ("path" :> <<"p", "a", "t", "h">>) @@
  ("ext" :> <<"e", "x", "t">>) @@
  ("text" :> <<"t", "e", "x", "t">>) @@
  ("regexp" :> <<"r", "e", "g", "e", "x", "p">>) @@
  ("function" :> <<"f", "u", "n", "c", "t", "i", "o", "n">>) @@
  ("function-ref" :> <<"f", "u", "n", "c", "t", "i", "o", "n", "-", "r", "e", "f">>) @@
  ("function-decl" :> <<"f", "u", "n", "c", "t", "i", "o", "n", "-", "d", "e", "c", "l">>) @@
  ("callers" :> <<"c", "a", "l", "l", "e", "r", "s">>) @@
  ("called-by" :> <<"c", "a", "l", "l", "e", "d", "-", "b", "y">>) @@
  ("type" :> <<"t", "y", "p", "e">>) @@
  ("type-ref" :> <<"t", "y", "p", "e", "-", "r", "e", "f">>) @@
  ("type-decl" :> <<"t", "y", "p", "e", "-", "d", "e", "c", "l">>) @@
  ("var" :> <<"v", "a", "r">>) @@
  ("var-ref" :> <<"v", "a", "r", "-", "r", "e", "f">>) @@
  ("var-decl" :> <<"v", "a", "r", "-", "d", "e", "c", "l">>) @@
  ("macro" :> <<"m", "a", "c", "r", "o">>) @@
  ("macro-ref" :> <<"m", "a", "c", "r", "o", "-", "r", "e", "f">>) @@
  ("namespace" :> <<"n", "a", "m", "e", "s", "p", "a", "c", "e">>) @@
  ("namespace-ref" :> <<"n", "a", "m", "e", "s", "p", "a", "c", "e", "-", "r", "e", "f">>) @@
  ("namespace-alias" :> <<"n", "a", "m", "e", "s", "p", "a", "c", "e", "-", "a", "l", "i", "a", "s">>) @@
  ("namespace-alias-ref" :> <<"n", "a", "m", "e", "s", "p", "a", "c", "e", "-", "a", "l", "i", "a", "s", "-", "r", "e", "f">>) @@
  ("bases" :> <<"b", "a", "s", "e", "s">>) @@
  ("derived" :> <<"d", "e", "r", "i", "v", "e", "d">>) @@
  ("member" :> <<"m", "e", "m", "b", "e", "r">>) @@
  ("overridden" :> <<"o", "v", "e", "r", "r", "i", "d", "d", "e", "n">>) @@
  ("overrides" :> <<"o", "v", "e", "r", "r", "i", "d", "e", "s">>) @@
  ("warning" :> <<"w", "a", "r", "n", "i", "n", "g">>) @@
  ("warning-opt" :> <<"w", "a", "r", "n", "i", "n", "g", "-", "o", "p", "t">>)

---------------------------------------------------------------------------
(* SearchFilter.names and the grammar built from the registry *)

names(f) == IF "param" \in DOMAIN f THEN <<f.param>> ELSE f.params

\* chain.from_iterable(f.names() for f in filters)
AllNames == Flatten([i \in DOMAIN filters |-> names(filters[i])])

\* a faulty variant: the names stay in registry order
SortedByLen_RegistryOrder(ns) == ns

\* sorted(..., key=len, reverse=True) is stable: a name comes after the longer
\* names and after the names of its own length that precede it in the list
SortedByLen(ns) ==
    LET before(i) == {j \in DOMAIN ns :
                        \/ Len(Chars[ns[j]]) > Len(Chars[ns[i]])
                        \/ Len(Chars[ns[j]]) = Len(Chars[ns[i]]) /\ j < i}
    IN [r \in DOMAIN ns |->
          ns[CHOOSE i \in DOMAIN ns : Cardinality(before(i)) = r - 1]]

FilterAlternation == SortedByLen(AllNames)

NoMatch == [ok |-> FALSE]

\* _ = ~r"[ \t]*"
RECURSIVE SkipWs(_, _)
SkipWs(s, p) ==
    IF p <= Len(s) /\ s[p] \in {" ", "\t"} THEN SkipWs(s, p + 1) ELSE p

\* filter = ~r"name1|name2|...": the first alternative that matches at p
RECURSIVE FirstAlternative(_, _, _)
FirstAlternative(s, p, alts) ==
    IF alts = <<>> THEN NoMatch
    ELSE IF StartsWith(s, p, Chars[Head(alts)])
         THEN [ok |-> TRUE, end |-> p + Len(Chars[Head(alts)]), text |-> Head(alts)]
         ELSE FirstAlternative(s, p, Tail(alts))

filter(s, p) == FirstAlternative(s, p, FilterAlternation)

\* bare_text = ~r"[^ ]+"
RECURSIVE BareEnd(_, _)
BareEnd(s, p) == IF p <= Len(s) /\ s[p] # " " THEN BareEnd(s, p + 1) ELSE p

bare_text(s, p) ==
    IF BareEnd(s, p) > p
    THEN [ok |-> TRUE, end |-> BareEnd(s, p), text |-> SubSeq(s, p, BareEnd(s, p) - 1)]
    ELSE NoMatch

\* The quoted-text regular expression, q being the quote character:
\*   q(?P<content>(?:[^q\\]*(?:\\q|\\|q[^ ])*)*)(?:q(?= )|q$|$)
\* Each operator below gives, for one sub-expression and a start position,
\* the end positions of its matches in the order a backtracking matcher
\* tries them.

\* keep the first occurrence of every position
Dedup(ps) ==
    LET keep == {i \in DOMAIN ps : \A j \in 1..(i - 1) : ps[j] # ps[i]}
    IN [r \in 1..Cardinality(keep) |->
          ps[CHOOSE i \in keep : Cardinality({j \in keep : j < i}) = r - 1]]

\* [^q\\]* , greedy: longest run first
RECURSIVE ClassStarEnds(_, _, _)
ClassStarEnds(s, p, q) ==
    IF p <= Len(s) /\ s[p] \notin {q, "\\"}
    THEN ClassStarEnds(s, p + 1, q) \o <<p>>
    ELSE <<p>>

\* (?:\\q|\\|q[^ ])
EscapeAltEnds(s, p, q) ==
    (IF StartsWith(s, p, <<"\\", q>>) THEN <<p + 2>> ELSE <<>>)
    \o (IF StartsWith(s, p, <<"\\">>) THEN <<p + 1>> ELSE <<>>)
    \o (IF StartsWith(s, p, <<q>>) /\ p + 1 <= Len(s) /\ s[p + 1] # " "
        THEN <<p + 2>> ELSE <<>>)

\* the matches of a greedy loop from the ends of a first iteration: the
\* longer matches in the order of the first iteration, then the empty match
AfterFirst(laters, p) ==
    Only({Dedup(all) : all \in {Flatten(laters) \o <<p>>}})

\* (?:\\q|\\|q[^ ])* , greedy
RECURSIVE EscapeStarEnds(_, _, _)
EscapeStarEnds(s, p, q) ==
    Only({AfterFirst(laters, p) :
            laters \in {[i \in DOMAIN firsts |-> EscapeStarEnds(s, firsts[i], q)] :
                          firsts \in {EscapeAltEnds(s, p, q)}}})

\* [^q\\]*(?:\\q|\\|q[^ ])*
ContentBodyEnds(s, p, q) ==
    Only({Dedup(all) :
            all \in {Flatten([i \in DOMAIN firsts |-> EscapeStarEnds(s, firsts[i], q)]) :
                       firsts \in {ClassStarEnds(s, p, q)}}})

\* (?:[^q\\]*(?:\\q|\\|q[^ ])*)* , greedy; an empty iteration ends the loop
RECURSIVE ContentEnds(_, _, _)
ContentEnds(s, p, q) ==
    Only({AfterFirst(laters, p) :
            laters \in {[i \in DOMAIN firsts |-> ContentEnds(s, firsts[i], q)] :
                          firsts \in {SelectSeq(ContentBodyEnds(s, p, q),
                                                LAMBDA e : e > p)}}})

\* $ : at the end, or just before a newline that ends the string
AtDollar(s, p) == p = Len(s) + 1 \/ (p = Len(s) /\ s[p] = "\n")

\* (?:q(?= )|q$|$) at position e: the end of the match, or 0
TerminatorEnd(s, e, q) ==
    IF StartsWith(s, e, <<q, " ">>) THEN e + 1
    ELSE IF StartsWith(s, e, <<q>>) /\ AtDollar(s, e + 1) THEN e + 1
    ELSE IF AtDollar(s, e) THEN e
    ELSE 0

\* the whole regular expression matched at p: content is the named group
quoted_text(s, p, q) ==
    IF ~StartsWith(s, p, <<q>>) THEN NoMatch
    ELSE Only({IF good = <<>> THEN NoMatch
               ELSE [ok |-> TRUE, end |-> TerminatorEnd(s, good[1], q),
                     content |-> SubSeq(s, p + 1, good[1] - 1)] :
               good \in {SelectSeq(ContentEnds(s, p + 1, q),
                                   LAMBDA e : TerminatorEnd(s, e, q) # 0)}})

double_quoted_text(s, p) == quoted_text(s, p, "\"")

single_quoted_text(s, p) == quoted_text(s, p, "'")

---------------------------------------------------------------------------
(* QueryVisitor, applied to the node the grammar matched *)

visit_double_quoted_text(m) == Replace(m.content, <<"\\", "\"">>, <<"\"">>)

visit_single_quoted_text(m) == Replace(m.content, <<"\\", "'">>, <<"'">>)

visit_bare_text(m) == m.text

\* returns 'text' and the new subdict
visit_text(some_text) == [kind |-> "text", subdict |-> [arg |-> some_text]]

\* subdict['qualified'] = plus.text == '+'; the kind becomes filter.text
visit_filtered_term(plus, filter_text, subdict) ==
    [kind |-> filter_text,
     subdict |-> ("qualified" :> (plus = <<"+">>)) @@ subdict]

\* a faulty variant: the not bit is not set
visit_not_term_Lost(t) == t

\* subdict['not'] = True
visit_not_term(t) ==
    [kind |-> t.kind, subdict |-> ("not" :> TRUE) @@ t.subdict]

\* case_sensitive is set, not and qualified get their defaults
visit_term(t, cs) ==
    [kind |-> t.kind,
     subdict |-> (("case_sensitive" :> cs) @@ t.subdict)
                 @@ ("not" :> FALSE) @@ ("qualified" :> FALSE)]

\* d.setdefault(filter_name, []).append(subdict), for each term in order:
\* every kind that occurs maps to the subdicts of its terms, in order
visit_query(ts) ==
    [k \in {ts[i].kind : i \in DOMAIN ts} |->
        Only({[j \in DOMAIN mine |-> mine[j].subdict] :
              mine \in {SelectSeq(ts, LAMBDA t : t.kind = k)}})]

---------------------------------------------------------------------------
(* The rules of query_grammar; a match carries its visited value *)

\* text = (double_quoted_text / single_quoted_text / bare_text) _
text(s, p) ==
    Only({IF dq.ok
          THEN [ok |-> TRUE, end |-> SkipWs(s, dq.end),
                val |-> visit_text(visit_double_quoted_text(dq))]
          ELSE IF sq.ok
          THEN [ok |-> TRUE, end |-> SkipWs(s, sq.end),
                val |-> visit_text(visit_single_quoted_text(sq))]
          ELSE IF bt.ok
          THEN [ok |-> TRUE, end |-> SkipWs(s, bt.end),
                val |-> visit_text(visit_bare_text(bt))]
          ELSE NoMatch :
          dq \in {double_quoted_text(s, p)},
          sq \in {single_quoted_text(s, p)},
          bt \in {bare_text(s, p)}})

\* maybe_plus = "+"?
maybe_plus(s, p) ==
    IF StartsWith(s, p, <<"+">>)
    THEN [ok |-> TRUE, end |-> p + 1, text |-> <<"+">>]
    ELSE [ok |-> TRUE, end |-> p, text |-> <<>>]

\* filter ":" text, after the maybe_plus that matched
FilteredTermAfter(s, plus) ==
    Only({IF flt.ok /\ StartsWith(s, flt.end, <<":">>)
          THEN Only({IF txt.ok
                     THEN [ok |-> TRUE, end |-> txt.end,
                           val |-> visit_filtered_term(plus.text, flt.text,
                                                       txt.val.subdict)]
                     ELSE NoMatch :
                     txt \in {text(s, flt.end + 1)}})
          ELSE NoMatch :
          flt \in {filter(s, plus.end)}})

\* filtered_term = maybe_plus filter ":" text
filtered_term(s, p) ==
    Only({FilteredTermAfter(s, plus) : plus \in {maybe_plus(s, p)}})

\* a faulty variant: no fall back to text
positive_term_FilteredOnly(s, p) == filtered_term(s, p)

\* positive_term = filtered_term / text
positive_term(s, p) ==
    Only({IF ft.ok THEN ft ELSE text(s, p) : ft \in {filtered_term(s, p)}})

\* not_term = not positive_term
not_term(s, p) ==
    IF StartsWith(s, p, <<"-">>)
    THEN Only({IF pt.ok
               THEN [ok |-> TRUE, end |-> pt.end, val |-> visit_not_term(pt.val)]
               ELSE NoMatch :
               pt \in {positive_term(s, p + 1)}})
    ELSE NoMatch

\* term = not_term / positive_term
term(s, p, cs) ==
    Only({IF m.ok THEN [ok |-> TRUE, end |-> m.end, val |-> visit_term(m.val, cs)]
          ELSE NoMatch :
          m \in {Only({IF nt.ok THEN nt ELSE positive_term(s, p) :
                        nt \in {not_term(s, p)}})}})

\* term* : as many terms as match, one after the other
RECURSIVE term_star(_, _, _)
term_star(s, p, cs) ==
    Only({IF m.ok /\ m.end > p
          THEN Only({[end |-> rest.end, vals |-> <<m.val>> \o rest.vals] :
                     rest \in {term_star(s, m.end, cs)}})
          ELSE [end |-> p, vals |-> <<>>] :
          m \in {term(s, p, cs)}})

\* query = _ term* ; Grammar.parse raises unless the whole text is consumed
query_grammar_parse(s, cs) ==
    Only({IF ts.end = Len(s) + 1
          THEN [ok |-> TRUE, terms |-> visit_query(ts.vals)]
          ELSE [ok |-> FALSE] :
          ts \in {term_star(s, SkipWs(s, 1), cs)}})

---------------------------------------------------------------------------
(* The filter classes.  A yielded tuple keeps the positions of the source. *)

MATCH == <<"trg_index.contents MATCH ", "?">>

\* the terms with a non-empty arg whose 'not' bit is neg
TriliteSelect(ts, neg) ==
    SelectSeq(ts, LAMBDA t : t.arg # <<>> /\ t["not"] = neg)

\* a faulty variant: the case flag of the term is ignored
TriliteTextArg_IgnoreCase(t, suffix) == <<"substr" \o suffix>> \o t.arg

TriliteTextArg(t, suffix) ==
    <<(IF t.case_sensitive THEN "substr" ELSE "isubstr") \o suffix>> \o t.arg

TriliteRegexpArg(t, suffix) == <<"regexp" \o suffix>> \o t.arg

\* a faulty variant: the arguments of the negated regexps are bound first
TriliteNotArgs_RegexpFirst(negT, negR) ==
    [i \in DOMAIN negR |-> TriliteRegexpArg(negR[i], ":")]
    \o [i \in DOMAIN negT |-> TriliteTextArg(negT[i], ":")]

\* not_args: the negated text terms, then the negated regexp terms
TriliteNotArgs(negT, negR) ==
    [i \in DOMAIN negT |-> TriliteTextArg(negT[i], ":")]
    \o [i \in DOMAIN negR |-> TriliteRegexpArg(negR[i], ":")]

\* TriliteSearchFilter.filter
TriliteSearchFilter_filter(ts) ==
    LET txt == Get(ts, "text")
        res == Get(ts, "re") \o Get(ts, "regexp")
        posT == TriliteSelect(txt, FALSE)
        posR == TriliteSelect(res, FALSE)
        negT == TriliteSelect(txt, TRUE)
        negR == TriliteSelect(res, TRUE)
        not_conds == [i \in 1..(Len(negT) + Len(negR)) |-> MATCH]
        not_args == TriliteNotArgs(negT, negR)
    IN [i \in DOMAIN posT |->
            <<(<<>>), MATCH, <<TriliteTextArg(posT[i], "-extents:")>> >>]
       \o [i \in DOMAIN posR |->
            <<(<<>>), MATCH, <<TriliteRegexpArg(posR[i], "-extents:")>> >>]
       \o (IF not_conds # <<>>
           THEN << <<(<<>>),
                     <<"NOT EXISTS (SELECT 1 FROM trg_index WHERE trg_index.id=lines.id AND (">>
                        \o Join(<<" OR ">>, not_conds) \o <<"))">>,
                     not_args>> >>
           ELSE <<>>)

\* the formatter lambdas of the two SimpleFilter entries of the registry
formatter(f, arg) ==
    IF f.param = "path"
    THEN << <<"%">> \o like_escape(arg) \o <<"%">> >>
    ELSE << <<"%">> \o like_escape(IF StartsWith(arg, 1, <<".">>)
                                   THEN arg ELSE <<".">> \o arg) >>

\* a faulty variant: a negated term gets the positive predicate
SimpleFilter_filter_IgnoreNot(f, ts) ==
    LET mine == Get(ts, f.param)
    IN [i \in DOMAIN mine |->
          <<(<<>>), f.filter_sql, formatter(f, mine[i].arg)>>]

\* a faulty variant: a qualified term is matched exactly
SimpleFilter_filter_QualifiedExact(f, ts) ==
    LET mine == Get(ts, f.param)
    IN [i \in DOMAIN mine |->
          <<(<<>>),
            (IF mine[i]["not"] THEN f.neg_filter_sql ELSE f.filter_sql),
            (IF mine[i].qualified THEN <<mine[i].arg>> ELSE formatter(f, mine[i].arg))>>]

\* SimpleFilter.filter
SimpleFilter_filter(f, ts) ==
    LET mine == Get(ts, f.param)
    IN [i \in DOMAIN mine |->
          IF mine[i]["not"]
          THEN <<(<<>>), f.neg_filter_sql, formatter(f, mine[i].arg)>>
          ELSE <<(<<>>), f.filter_sql, formatter(f, mine[i].arg)>>]

\* ExistsLikeFilter.__init__: qual_expr and like_expr
qual_expr(f) == <<" ", f.qual_name, " = ", "?", " ">>

like_expr(f) == <<" ", f.like_name, " LIKE ", "?", " ESCAPE \"\\\" ">>

\* ExistsLikeFilter.filter: yields (condition, parameters, has extents)
ExistsLikeFilter_filter(f, ts) ==
    LET mine == Get(ts, f.param)
        filter_sql(t) == <<f.filter_sql[1]>>
                         \o (IF t.qualified THEN qual_expr(f) ELSE like_expr(f))
                         \o <<f.filter_sql[2]>>
        sql_params(t) == <<IF t.qualified THEN t.arg ELSE like_escape(t.arg)>>
    IN [i \in DOMAIN mine |->
          IF mine[i]["not"]
          THEN <<(<<"NOT EXISTS (">> \o filter_sql(mine[i]) \o <<")">>),
                 sql_params(mine[i]), FALSE>>
          ELSE <<(<<"EXISTS (">> \o filter_sql(mine[i]) \o <<")">>),
                 sql_params(mine[i]), TRUE>>]

Min(S) == CHOOSE x \in S : \A y \in S : x <= y

\* UnionFilter.filter: zip the inner generators, OR each tuple of results
UnionFilter_filter(f, ts) ==
    LET inner == [k \in DOMAIN f.filters |-> ExistsLikeFilter_filter(f.filters[k], ts)]
        n == Min({Len(inner[k]) : k \in DOMAIN inner})
        res(i) == [k \in DOMAIN inner |-> inner[k][i]]
    IN [i \in 1..n |->
          <<(<<"(">> \o Join(<<" OR ">>, [k \in DOMAIN inner |-> res(i)[k][1]])
                     \o <<")">>),
            Flatten([k \in DOMAIN inner |-> res(i)[k][2]]),
            \E k \in DOMAIN inner : res(i)[k][3]>>]

\* f.filter(...), dispatched on the class of f
filter_of(f, ts) ==
    CASE f.cls = "TriliteSearchFilter" -> TriliteSearchFilter_filter(ts)
      [] f.cls = "SimpleFilter"        -> SimpleFilter_filter(f, ts)
      [] f.cls = "ExistsLikeFilter"    -> ExistsLikeFilter_filter(f, ts)
      [] f.cls = "UnionFilter"         -> UnionFilter_filter(f, ts)

---------------------------------------------------------------------------
(* Query.results: plan synthesis *)

\* for f in [filters[0], filters[2]]
ConsultedFilters == <<filters[1], filters[3]>>

\* a faulty variant: the column of the base extents is left out
LineFields_NoBaseExtents ==
    <<"files.encoding", "files.id as file_id", "lines.id as line_id",
      "lines.number", "trg_index.text">>

LineFields == <<"files.encoding", "files.id as file_id", "lines.id as line_id",
                "lines.number", "trg_index.text", "extents(trg_index.contents)">>

LineTables == <<"lines", "trg_index">>

LineOrderings == <<"lines.number">>

\* a faulty variant: the switch is taken for every line-having contribution
SwitchToLines_EveryTime(hl, f) == f.has_lines

\* if not has_lines and f.has_lines
SwitchToLines(hl, f) == ~hl /\ f.has_lines

\* arguments.extend([limit, offset])
LimitOffset(l, o) == <<l, o>>

LineConditions == << <<"files.id=lines.file_id">>, <<"lines.id=trg_index.id">> >>

Tokens(strs) == [i \in DOMAIN strs |-> <<strs[i]>>]

\* sql %= (fields, tables, WHERE ..., orderings)
SqlText(flds, tbls, conds, ords) ==
    <<"SELECT ">> \o Join(<<", ">>, Tokens(flds))
    \o <<" FROM ">> \o Join(<<", ">>, Tokens(tbls))
    \o <<" ">>
    \o (IF conds # <<>> THEN <<"WHERE ">> \o Join(<<" AND ">>, conds) ELSE <<>>)
    \o <<" ORDER BY ">> \o Join(<<", ">>, Tokens(ords))
    \o <<" LIMIT ", "?", " OFFSET ", "?">>

---------------------------------------------------------------------------
(* extents: execute_sql is the callable the caller passes in, a function   *)
(* from <<sql text, parameters>> to the rows the store returns.  A row is  *)
(* <<start, end>>; None is an integer below every offset, as Python 2      *)
(* orders None below every number.                                         *)

None == -1

\* Python truth of a column value: neither None nor 0
Truthy(v) == v # None /\ v # 0

\* the statement ExistsLikeFilter.extents issues for one term
ExtentsQuery(f, t, file_id) ==
    << <<f.ext_sql[1]>> \o (IF t.qualified THEN qual_expr(f) ELSE like_expr(f))
                        \o <<f.ext_sql[2]>>,
       <<file_id, IF t.qualified THEN t.arg ELSE like_escape(t.arg)>> >>

\* builder() of ExistsLikeFilter.extents
ExistsLikeFilter_builder(f, ts, execute_sql, file_id) ==
    LET mine == Get(ts, f.param)
        hits(rows) == Only({[r \in DOMAIN kept |-> <<kept[r][1], kept[r][2], <<>> >>] :
                            kept \in {SelectSeq(rows, LAMBDA row :
                                                 Truthy(row[1]) /\ Truthy(row[2]))}})
    IN Flatten([j \in DOMAIN mine |->
                  hits(execute_sql[ExtentsQuery(f, mine[j], file_id)])])

\* ExistsLikeFilter.extents: yields builder() when ext_sql is set
ExistsLikeFilter_extents(f, ts, execute_sql, file_id) ==
    IF f.ext_sql # <<>> THEN <<ExistsLikeFilter_builder(f, ts, execute_sql, file_id)>>
    ELSE <<>>

\* order of the tuples (start, end, [])
HitLess(a, b) == a[1] < b[1] \/ (a[1] = b[1] /\ a[2] < b[2])

\* sorted(hits): the hits in ascending order
sorted(hs) ==
    LET before(i) == {j \in DOMAIN hs :
                        HitLess(hs[j], hs[i]) \/ (hs[j] = hs[i] /\ j < i)}
    IN [r \in DOMAIN hs |->
          hs[CHOOSE i \in DOMAIN hs : Cardinality(before(i)) = r - 1]]

\* a faulty variant: every hit is kept
groupby_keys_KeepAll(hs) == hs

\* the keys of groupby(hs): one per run of equal neighbours
RECURSIVE groupby_keys(_)
groupby_keys(hs) ==
    IF Len(hs) <= 1 THEN hs
    ELSE IF hs[1] = hs[2] THEN groupby_keys(Tail(hs))
    ELSE <<hs[1]>> \o groupby_keys(Tail(hs))

\* builder() of UnionFilter.extents: every hit of every inner filter
UnionFilter_builder(f, ts, execute_sql, file_id) ==
    Flatten([k \in DOMAIN f.filters |->
               Flatten(ExistsLikeFilter_extents(f.filters[k], ts, execute_sql, file_id))])

\* UnionFilter.extents: yields sorter()
UnionFilter_extents(f, ts, execute_sql, file_id) ==
    Only({<<groupby_keys(srt)>> :
          srt \in {sorted(hits) :
                    hits \in {UnionFilter_builder(f, ts, execute_sql, file_id)}}})

\* SearchFilter has no extents method
extents_of(f, ts, execute_sql, file_id) ==
    CASE f.cls = "ExistsLikeFilter" -> ExistsLikeFilter_extents(f, ts, execute_sql, file_id)
      [] f.cls = "UnionFilter"      -> UnionFilter_extents(f, ts, execute_sql, file_id)

\* the statements extents issues for the term set
ExtentsQueries(f, ts, file_id) ==
    LET inner == IF f.cls = "UnionFilter" THEN f.filters ELSE <<f>>
    IN {ExtentsQuery(inner[k], Get(ts, f.param)[j], file_id) :
          k \in DOMAIN inner, j \in DOMAIN Get(ts, f.param)}

---------------------------------------------------------------------------
(* Inputs: query strings a user can type *)

\* (negated, plus, filter name or "" for bare text, text after the colon)
TermShapes ==
    { <<FALSE, FALSE, "", <<"a">> >>,
      <<TRUE,  FALSE, "", <<"a">> >>,
      <<TRUE,  FALSE, "", <<"*", "_">> >>,
      <<FALSE, FALSE, "", <<"\"", "\"">> >>,
      <<FALSE, TRUE,  "", <<"a">> >>,
      <<FALSE, FALSE, "path", <<"a">> >>,
      <<TRUE,  FALSE, "path", <<"*", "_">> >>,
      <<FALSE, TRUE,  "path", <<"a">> >>,
      <<FALSE, FALSE, "ext", <<"a">> >>,
      <<FALSE, FALSE, "regexp", <<"a">> >>,
      <<TRUE,  FALSE, "regexp", <<"a">> >>,
      <<FALSE, FALSE, "regexp", <<"\"", "\"">> >>,
      <<FALSE, FALSE, "function", <<"a">> >>,
      <<FALSE, TRUE,  "function", <<"a">> >>,
      <<TRUE,  FALSE, "function", <<"*", "_">> >>,
      <<TRUE,  TRUE,  "function", <<"a">> >>,
      <<FALSE, FALSE, "type", <<"a">> >>,
      <<FALSE, TRUE,  "type", <<"*", "_">> >>,
      <<TRUE,  FALSE, "type", <<"a">> >> }

TermSource(neg, plus, kind, arg) ==
    (IF neg THEN <<"-">> ELSE <<>>)
    \o (IF plus THEN <<"+">> ELSE <<>>)
    \o (IF kind # "" THEN Chars[kind] \o <<":">> ELSE <<>>)
    \o arg

\* the shapes joined by single spaces
RECURSIVE QueryOf(_)
QueryOf(xs) ==
    IF xs = <<>> THEN <<>>
    ELSE IF Len(xs) = 1 THEN TermSource(xs[1][1], xs[1][2], xs[1][3], xs[1][4])
    ELSE TermSource(xs[1][1], xs[1][2], xs[1][3], xs[1][4]) \o <<" ">>
         \o QueryOf(Tail(xs))

TypedQueries == UNION {[1..n -> TermShapes] : n \in 1..MaxTerms}

\* one term "N:a" for every name N of the registry
NameQueries == {<< <<FALSE, FALSE, AllNames[n], <<"a">> >> >> : n \in DOMAIN AllNames}

\* a term written with the kind "re"
LegacyQueries == {<<"r", "e", ":", "a">>}

\* a lone plus, and a filter name with its colon and nothing after it
EdgeQueries == {<<"+">>, <<"p", "a", "t", "h", ":">>}

RawAlphabet == {"a", " ", "\"", "\\", "-"}

RawQueries == UNION {[1..n -> RawAlphabet] : n \in 0..MaxRawLen}

\* rows a store can return for one extents statement
StoreRows ==
    { <<>>,
      << <<2, 3>>, <<1, 2>> >>,
      << <<1, 2>>, <<1, 2>>, <<0, 4>> >>,
      << <<None, None>>, <<1, 3>> >> }

FileId == 1

Offsets == {0}

Limits == {100}

---------------------------------------------------------------------------
(* The life of one Query object *)

\* the profile is empty, nothing has been executed, yielded or looked up
RunInit ==
    /\ sql_profile = <<>>
    /\ calls = 0
    /\ executed = <<>>
    /\ store_rows = <<>> /\ fetched = 0
    /\ out = <<>> /\ first = <<>>
    /\ cursors = {}
    /\ dr_term = <<>> /\ line_number = -1 /\ lookups = <<>> /\ result = <<>>
    /\ objects = <<>> /\ profiles = <<>>

\* a call of Query.results begins: nothing executed or yielded by it yet
ResultsCalled ==
    /\ calls' = calls + 1
    /\ executed' = <<>>
    /\ fetched' = 0
    /\ out' = <<>>
    /\ UNCHANGED <<should_explain, sql_profile, store_rows, first, cursors>>

Init ==
    /\ \/ \E xs \in TypedQueries \cup NameQueries : typed = xs /\ querystr = QueryOf(xs)
       \/ typed = <<>> /\ querystr \in RawQueries \cup LegacyQueries \cup EdgeQueries
    /\ is_case_sensitive \in BOOLEAN
    /\ pc = "new"
    /\ terms = <<>>
    /\ offset = 0 /\ limit = 0
    /\ fidx = 0 /\ pending = <<>>
    /\ fields = <<>> /\ tables = <<>> /\ conditions = <<>>
    /\ orderings = <<>> /\ arguments = <<>> /\ has_lines = FALSE
    /\ sql = <<>>
    /\ contribs = <<>>
    /\ called = <<>> /\ yielded = <<>>
    /\ should_explain = FALSE
    /\ RunInit

\* Query.__init__: parse the query string and visit the tree
Construct ==
    /\ pc = "new"
    /\ \E parsed \in {query_grammar_parse(querystr, is_case_sensitive)} :
          IF parsed.ok
          THEN pc' = "ready" /\ terms' = parsed.terms
          ELSE pc' = "raised" /\ terms' = terms
    /\ UNCHANGED <<pair, input, offset, limit, fidx, pending, plan, sql, contribs,
                   called, yielded, run, direct>>

\* Query.results up to the first filter of the loop
ResultsBegin ==
    /\ pc \in {"ready", "done"}
    /\ calls < MaxCalls
    /\ \E o \in Offsets, l \in Limits : offset' = o /\ limit' = l
    /\ fields' = <<"files.path", "files.icon">>
    /\ tables' = <<"files">>
    /\ conditions' = <<>>
    /\ orderings' = <<"files.path">>
    /\ arguments' = <<>>
    /\ has_lines' = FALSE
    /\ fidx' = 1
    /\ pending' = filter_of(ConsultedFilters[1], terms)
    /\ contribs' = <<>>
    /\ pc' = "loop"
    /\ ResultsCalled
    /\ UNCHANGED <<pair, input, terms, sql, called, yielded, direct>>

\* the body of the inner for loop, for the next contribution of the filter
Contribute ==
    /\ pc = "loop"
    /\ pending # <<>>
    /\ \E flds \in {Head(pending)[1]}, cond \in {Head(pending)[2]},
          args \in {Head(pending)[3]},
          switch \in {SwitchToLines(has_lines, ConsultedFilters[fidx])} :
          /\ has_lines' = (has_lines \/ switch)
          /\ fields' = fields \o (IF switch THEN LineFields ELSE <<>>) \o flds
          /\ tables' = tables \o (IF switch THEN LineTables ELSE <<>>)
          /\ conditions' = conditions \o (IF switch THEN LineConditions ELSE <<>>)
                           \o <<cond>>
          /\ orderings' = orderings \o (IF switch THEN LineOrderings ELSE <<>>)
          /\ arguments' = arguments \o args
          /\ contribs' = Append(contribs,
                                [fidx |-> fidx, flds |-> flds, cond |-> cond,
                                 args |-> args])
    /\ pending' = Tail(pending)
    /\ UNCHANGED <<pair, input, pc, terms, offset, limit, fidx, sql, called, yielded,
                   run, direct>>

\* the outer for loop moves to the next consulted filter
NextFilter ==
    /\ pc = "loop"
    /\ pending = <<>>
    /\ fidx < Len(ConsultedFilters)
    /\ fidx' = fidx + 1
    /\ pending' = filter_of(ConsultedFilters[fidx + 1], terms)
    /\ UNCHANGED <<pair, input, pc, terms, offset, limit, plan, sql, contribs,
                   called, yielded, run, direct>>

\* after the loop: the SQL text is filled in, limit and offset are bound
BuildSql ==
    /\ pc = "loop"
    /\ pending = <<>>
    /\ fidx = Len(ConsultedFilters)
    /\ sql' = SqlText(fields, tables, conditions, orderings)
    /\ arguments' = arguments \o LimitOffset(limit, offset)
    /\ pc' = "planned"
    /\ UNCHANGED <<pair, input, terms, offset, limit, fidx, pending,
                   fields, tables, conditions, orderings, has_lines,
                   contribs, called, yielded, run, direct>>

\* a caller applies the filter method of a registered filter to Query.terms
CallFilter ==
    /\ pc = "ready"
    /\ \E i \in DOMAIN filters :
          /\ \E n \in DOMAIN names(filters[i]) : names(filters[i])[n] \in DOMAIN terms
          /\ called' = <<"filter", i>>
          /\ yielded' = filter_of(filters[i], terms)
    /\ pc' = "called"
    /\ UNCHANGED <<pair, input, terms, offset, limit, fidx, pending, plan, sql, contribs,
                   run, direct>>

\* a caller applies the extents method of a structural filter to Query.terms
CallExtents ==
    /\ pc = "ready"
    /\ \E i \in DOMAIN filters :
          /\ filters[i].cls \in {"ExistsLikeFilter", "UnionFilter"}
          /\ filters[i].param \in DOMAIN terms
          /\ \E queries \in {ExtentsQueries(filters[i], terms, FileId)} :
                /\ Cardinality(queries) <= MaxExtentsQueries
                /\ \E execute_sql \in [queries -> StoreRows] :
                      /\ called' = <<"extents", i, execute_sql>>
                      /\ yielded' = extents_of(filters[i], terms, execute_sql, FileId)
    /\ pc' = "called"
    /\ UNCHANGED <<pair, input, terms, offset, limit, fidx, pending, plan, sql, contribs,
                   run, direct>>

Next ==
    \/ Construct
    \/ ResultsBegin
    \/ Contribute
    \/ NextFilter
    \/ BuildSql
    \/ CallFilter
    \/ CallExtents

Spec == Init /\ [][Next]_vars

---------------------------------------------------------------------------
(* Query.single_term and Query.direct_result.  An optional value is a      *)
(* sequence: <<>> stands for None and <<v>> for the value v.               *)

\* a faulty variant: the first text term is returned whatever else there is
single_term_FirstText(ts) ==
    IF "text" \in DOMAIN ts THEN <<ts["text"][1].arg>> ELSE <<>>

\* Query.single_term
single_term(ts) ==
    IF DOMAIN ts = {"text"} /\ Len(ts["text"]) = 1
    THEN <<ts["text"][1].arg>>
    ELSE <<>>

Digits == {"0", "1", "2", "3", "4", "5", "6", "7", "8", "9"}

\* _line_number.match(s): "^.*:[0-9]+$", where "." is no newline and "$" is
\* the end or the place before a final newline
line_number_match(s) ==
    \E e \in {Len(s)} \cup (IF s # <<>> /\ s[Len(s)] = "\n" THEN {Len(s) - 1} ELSE {}) :
        \E i \in 1..e :
            /\ s[i] = ":"
            /\ i < e
            /\ \A j \in (i + 1)..e : s[j] \in Digits
            /\ \A j \in 1..(i - 1) : s[j] # "\n"

\* s.split(sep) for a separator of one character
split(s, sep) ==
    LET at == {i \in DOMAIN s : s[i] = sep}
        cut(n) == IF n = 0 THEN 0
                  ELSE IF n = Cardinality(at) + 1 THEN Len(s) + 1
                  ELSE CHOOSE i \in at : Cardinality({j \in at : j < i}) = n - 1
    IN [n \in 1..(Cardinality(at) + 1) |-> SubSeq(s, cut(n - 1) + 1, cut(n) - 1)]

DigitValue(c) ==
    CASE c = "0" -> 0 [] c = "1" -> 1 [] c = "2" -> 2 [] c = "3" -> 3 [] c = "4" -> 4
      [] c = "5" -> 5 [] c = "6" -> 6 [] c = "7" -> 7 [] c = "8" -> 8 [] c = "9" -> 9

\* int(s) for a string of digits
RECURSIVE int(_)
int(s) == IF s = <<>> THEN 0 ELSE 10 * int(SubSeq(s, 1, Len(s) - 1)) + DigitValue(s[Len(s)])

\* w in s
Contains(s, w) == \E p \in 1..Len(s) : StartsWith(s, p, w)

\* term and line_number after the split of direct_result
SplitTerm(t) ==
    IF line_number_match(t) /\ Len(split(t, ":")) = 2
    THEN <<split(t, ":")[1], int(split(t, ":")[2])>>
    ELSE <<t, -1>>

\* a faulty variant: the qualified lookups are made for every term
DirectSteps_AlwaysQualified(t) ==
    <<"files.path", "types.name =", "functions.name =",
      "types.qualname LIKE", "functions.qualname LIKE",
      "types.name LIKE", "functions.name LIKE">>

\* the lookups direct_result makes for a term when none of them returns
DirectSteps(t) ==
    <<"files.path", "types.name =", "functions.name =">>
    \o (IF Contains(t, <<":", ":">>)
        THEN <<"types.qualname LIKE", "functions.qualname LIKE">> ELSE <<>>)
    \o <<"types.name LIKE", "functions.name LIKE">>

\* the parameters bound by a lookup
DirectParams(step, t) ==
    CASE step = "files.path" -> <<t, <<"%/">> \o t>>
      [] step = "functions.qualname LIKE" -> <<t \o <<"%">> >>
      [] OTHER -> <<t>>

\* what a lookup can fetch under LIMIT 2
FileRows == {<<>>, <<[path |-> "p"]>>, <<[path |-> "p"], [path |-> "q"]>>}

SymbolRows == {<<>>, <<[path |-> "p", file_line |-> 7]>>,
               <<[path |-> "p", file_line |-> 7], [path |-> "q", file_line |-> 9]>>}

\* a faulty variant: any fetched row is a match
UniqueRow_AnyRow(rows) == rows # <<>>

\* rows and len(rows) == 1
UniqueRow(rows) == rows # <<>> /\ Len(rows) = 1

\* the tuple returned from a lookup with a unique row
DirectTarget(step, rows, ln) ==
    IF step = "files.path"
    THEN <<rows[1].path, IF ln >= 0 THEN ln ELSE 1>>
    ELSE <<rows[1].path, rows[1].file_line>>

\* the queries of the runs
RunQueries ==
    { <<"a">>, <<"a", ":", "3">>, <<":", "3">>, <<"a", ":", ":", "b">>,
      <<"a", ":", ":", "b", ":", "3">>, <<"a", ":", "b">>, <<"\"", "\"">>,
      <<"a", " ", "b">>, <<"-", "a">>,
      <<"p", "a", "t", "h", ":", "a">>,
      <<"r", "e", "g", "e", "x", "p", ":", "(", " ", "a">> }

InitRun ==
    /\ typed = <<>> /\ querystr \in RunQueries
    /\ is_case_sensitive \in BOOLEAN
    /\ should_explain \in BOOLEAN
    /\ pc = "new"
    /\ terms = <<>>
    /\ offset = 0 /\ limit = 0
    /\ fidx = 0 /\ pending = <<>>
    /\ fields = <<>> /\ tables = <<>> /\ conditions = <<>>
    /\ orderings = <<>> /\ arguments = <<>> /\ has_lines = FALSE
    /\ sql = <<>>
    /\ contribs = <<>>
    /\ called = <<>> /\ yielded = <<>>
    /\ RunInit

\* Query.direct_result up to the first lookup
DirectBegin ==
    /\ pc = "ready"
    /\ \E t \in {single_term(terms)} :
          IF t = <<>> \/ t[1] = <<>>
          THEN /\ pc' = "returned"
               /\ result' = <<>>
               /\ UNCHANGED <<dr_term, line_number, lookups, cursors>>
          ELSE /\ pc' = "direct"
               /\ cursors' = cursors \cup {<<"direct", 0>>}
               /\ dr_term' = SplitTerm(t[1])[1]
               /\ line_number' = SplitTerm(t[1])[2]
               /\ UNCHANGED <<lookups, result>>
    /\ UNCHANGED <<pair, input, terms, offset, limit, fidx, pending, plan, sql, contribs,
                   called, yielded, should_explain, sql_profile, calls, executed,
                   store_rows, fetched, out, first>>

\* the next lookup of direct_result: cur.execute, cur.fetchall, and the
\* return that follows a unique row or the last lookup
DirectLookup ==
    /\ pc = "direct"
    /\ \E step \in {DirectSteps(dr_term)[Len(lookups) + 1]} :
       \E rows \in (IF step = "files.path" THEN FileRows ELSE SymbolRows) :
          /\ lookups' = Append(lookups, [step |-> step,
                                         params |-> DirectParams(step, dr_term),
                                         nrows |-> Len(rows)])
          /\ IF UniqueRow(rows)
             THEN pc' = "returned" /\ result' = <<DirectTarget(step, rows, line_number)>>
             ELSE IF Len(lookups) + 1 = Len(DirectSteps(dr_term))
             THEN pc' = "returned" /\ result' = <<>>
             ELSE pc' = "direct" /\ result' = result
    /\ UNCHANGED <<pair, input, terms, offset, limit, fidx, pending, plan, sql, contribs,
                   called, yielded, run, dr_term, line_number>>

---------------------------------------------------------------------------
(* Query.execute_sql, Query._sql_report and the result loop of             *)
(* Query.results.  A row of the store is a record of the columns the loop  *)
(* reads; store_rows maps an offset to the rows the store returns for the  *)
(* statement of the plan at that offset.  The measured seconds of a        *)
(* profile entry are left out.                                             *)

RowValues ==
    { [file_id |-> 1, path |-> "p", icon |-> "i", number |-> 1],
      [file_id |-> 1, path |-> "p", icon |-> "i", number |-> 2],
      [file_id |-> 2, path |-> "q", icon |-> "j", number |-> 1] }

RowSeqs == UNION {[1..n -> RowValues] : n \in 0..MaxRows}

\* the statements execute_sql hands to conn.execute
execute_sql_statements(explain, s) ==
    IF explain THEN << <<"EXPLAIN QUERY PLAN ">> \o s, s >> ELSE <<s>>

\* a faulty variant: the rows are left in the cursor
execute_sql_fetched_Lazy(explain, rows) == 0

\* the rows execute_sql has fetched when it returns: all of them (fetchall)
\* when explaining, none otherwise
execute_sql_fetched(explain, rows) == IF explain THEN Len(rows) ELSE 0

\* the entry execute_sql appends to _sql_profile
ProfileEntry(s, parameters, cursor, rows) ==
    [sql |-> s, parameters |-> parameters, explanation |-> cursor, nrows |-> Len(rows)]

\* number_lines(arr), with indices from 0
number_lines(arr) == [i \in DOMAIN arr |-> <<i - 1, arr[i]>>]

\* _sql_report: three rows for every entry of the profile
sql_report(profile) ==
    Flatten([i \in DOMAIN profile |->
        << [icon |-> "", path |-> <<"sql", i - 1, profile[i].nrows>>,
            lines |-> number_lines(<<profile[i].sql>>)],
           [icon |-> "", path |-> <<"parameters", i - 1>>,
            lines |-> number_lines(profile[i].parameters)],
           [icon |-> "", path |-> <<"explanation", i - 1>>,
            lines |-> <<profile[i].explanation>>] >>])

\* a faulty variant: every row is a group of its own
groupby_PerRow(rows) == [i \in DOMAIN rows |-> <<rows[i]>>]

\* groupby(rows, file_id): the maximal runs of rows with the same file_id
groupby(rows) ==
    LET starts == {i \in DOMAIN rows : i = 1 \/ rows[i].file_id # rows[i - 1].file_id}
        start(g) == CHOOSE i \in starts : Cardinality({j \in starts : j < i}) = g - 1
        stop(g) == IF g = Cardinality(starts) THEN Len(rows) ELSE start(g + 1) - 1
    IN [g \in 1..Cardinality(starts) |-> SubSeq(rows, start(g), stop(g))]

\* the tuple yielded for the lines of one file; the highlighting of the
\* line text is the work of dxr.extents
FileResult(fields_and_extents_for_lines) ==
    [icon |-> fields_and_extents_for_lines[1].icon,
     path |-> fields_and_extents_for_lines[1].path,
     lines |-> [n \in DOMAIN fields_and_extents_for_lines |->
                  fields_and_extents_for_lines[n].number]]

\* the tuple yielded for one row of a plan without lines
RowResult(r) == [icon |-> r.icon, path |-> r.path, lines |-> <<>>]

\* the rows of the statement of this call
Rows == store_rows[offset]

\* the report rows this call yields
Report == IF should_explain THEN sql_report(sql_profile) ELSE <<>>

\* the result tuples this call has yielded
Results == SubSeq(out, Len(Report) + 1, Len(out))

\* cursor = self.execute_sql(sql, arguments)
Execute ==
    /\ pc = "planned"
    /\ \E rows \in (IF offset \in DOMAIN store_rows THEN {store_rows[offset]} ELSE RowSeqs) :
          /\ store_rows' = (offset :> rows) @@ store_rows
          /\ executed' = execute_sql_statements(should_explain, sql)
          /\ fetched' = execute_sql_fetched(should_explain, rows)
          /\ IF should_explain
             THEN /\ sql_profile' = Append(sql_profile,
                                           ProfileEntry(sql, arguments,
                                                        <<"explanation", calls>>, rows))
                  /\ cursors' = cursors \cup {<<"explanation", calls>>, <<"statement", calls>>}
                  /\ pc' = "report"
             ELSE /\ sql_profile' = sql_profile
                  /\ cursors' = cursors \cup {<<"statement", calls>>}
                  /\ pc' = "rows"
    /\ UNCHANGED <<pair, input, terms, offset, limit, fidx, pending, plan, sql, contribs,
                   called, yielded, should_explain, calls, out, first, direct>>

\* the bound arguments that are patterns for the regexp engine
RegexpArgs ==
    SelectSeq(Flatten([n \in DOMAIN contribs |-> contribs[n].args]),
              LAMBDA a : Head(a) \in {"regexp-extents:", "regexp:"})

\* cursor = self.execute_sql(sql, arguments) when the trigram engine rejects
\* the pattern of a regexp term: conn.execute raises, after the profile
\* entry was appended, and nothing in execute_sql or results catches it
RejectPattern ==
    /\ pc = "planned"
    /\ RegexpArgs # <<>>
    /\ executed' = execute_sql_statements(should_explain, sql)
    /\ IF should_explain
       THEN /\ sql_profile' = Append(sql_profile,
                                     [sql |-> sql, parameters |-> arguments,
                                      explanation |-> <<"explanation", calls>>])
            /\ cursors' = cursors \cup {<<"explanation", calls>>}
       ELSE UNCHANGED <<sql_profile, cursors>>
    /\ pc' = "aborted"
    /\ UNCHANGED <<pair, input, terms, offset, limit, fidx, pending, plan, sql, contribs,
                   called, yielded, should_explain, calls, store_rows, fetched, out,
                   first, direct>>

\* for r in self._sql_report(): yield r
YieldReport ==
    /\ pc = "report"
    /\ out' = Append(out, Report[Len(out) + 1])
    /\ pc' = IF Len(out) + 1 = Len(Report) THEN "rows" ELSE "report"
    /\ UNCHANGED <<pair, input, terms, offset, limit, fidx, pending, plan, sql, contribs,
                   called, yielded, should_explain, sql_profile, calls, executed,
                   store_rows, fetched, first, cursors, direct>>

Max(a, b) == IF a >= b THEN a ELSE b

\* the loop over the groups of a plan with lines: the lines of the next file
\* are read, with the row that ends them, and its tuple is yielded
YieldFile ==
    /\ pc = "rows"
    /\ has_lines
    /\ Len(Results) < Len(groupby(Rows))
    /\ \E g \in {Len(Results) + 1} :
          /\ out' = Append(out, FileResult(groupby(Rows)[g]))
          /\ fetched' = Max(fetched,
                            Min({Len(Rows),
                                 Len(Flatten(SubSeq(groupby(Rows), 1, g))) + 1}))
    /\ UNCHANGED <<pair, input, pc, terms, offset, limit, fidx, pending, plan, sql, contribs,
                   called, yielded, should_explain, sql_profile, calls, executed,
                   store_rows, first, cursors, direct>>

\* the loop over the cursor of a plan without lines
YieldRow ==
    /\ pc = "rows"
    /\ ~has_lines
    /\ Len(Results) < Len(Rows)
    /\ out' = Append(out, RowResult(Rows[Len(Results) + 1]))
    /\ fetched' = Max(fetched, Len(Results) + 1)
    /\ UNCHANGED <<pair, input, pc, terms, offset, limit, fidx, pending, plan, sql, contribs,
                   called, yielded, should_explain, sql_profile, calls, executed,
                   store_rows, first, cursors, direct>>

\* the loop ends and the generator with it
ResultsEnd ==
    /\ pc = "rows"
    /\ Len(Results) = (IF has_lines THEN Len(groupby(Rows)) ELSE Len(Rows))
    /\ pc' = "done"
    /\ fetched' = Len(Rows)
    /\ first' = IF first = <<>> THEN <<[offset |-> offset, out |-> out]>> ELSE first
    /\ UNCHANGED <<pair, input, terms, offset, limit, fidx, pending, plan, sql, contribs,
                   called, yielded, should_explain, sql_profile, calls, executed,
                   store_rows, out, cursors, direct>>

\* the consumer drops the generator where it is suspended at a yield
Abandon ==
    /\ pc \in {"report", "rows"}
    /\ out # <<>>
    /\ pc' = "abandoned"
    /\ UNCHANGED <<pair, input, terms, offset, limit, fidx, pending, plan, sql, contribs,
                   called, yielded, run, direct>>

\* the store raises while the next row is fetched, or while a lookup of
\* direct_result is executed; nothing catches it
StoreError ==
    /\ \/ pc = "rows" /\ fetched < Len(Rows)
       \/ pc = "direct"
    /\ pc' = "failed"
    /\ UNCHANGED <<pair, input, terms, offset, limit, fidx, pending, plan, sql, contribs,
                   called, yielded, run, direct>>

NextRun ==
    \/ Construct
    \/ ResultsBegin
    \/ Contribute
    \/ NextFilter
    \/ BuildSql
    \/ Execute
    \/ RejectPattern
    \/ YieldReport
    \/ YieldFile
    \/ YieldRow
    \/ ResultsEnd
    \/ Abandon
    \/ StoreError
    \/ DirectBegin
    \/ DirectLookup

SpecRun == InitRun /\ [][NextRun]_vars

----------------------------------------------------------------------------
(* like_escape on its own: every value over the characters it rewrites     *)

EscapeAlphabet == {"\\", "_", "%", "?", "*", "a"}

RECURSIVE SeqsUpTo(_, _)
SeqsUpTo(S, n) ==
    IF n = 0 THEN {<<>>}
    ELSE SeqsUpTo(S, n - 1)
         \cup {Append(s, c) : s \in {t \in SeqsUpTo(S, n - 1) : Len(t) = n - 1},
                              c \in S}

EscapeInputs == SeqsUpTo(EscapeAlphabet, MaxEscapeLen)

InitEscape ==
    /\ typed = <<>> /\ querystr = <<>>
    /\ is_case_sensitive = FALSE
    /\ should_explain = FALSE
    /\ pc = "new"
    /\ terms = <<>>
    /\ offset = 0 /\ limit = 0
    /\ fidx = 0 /\ pending = <<>>
    /\ fields = <<>> /\ tables = <<>> /\ conditions = <<>>
    /\ orderings = <<>> /\ arguments = <<>> /\ has_lines = FALSE
    /\ sql = <<>>
    /\ contribs = <<>>
    /\ \E val \in EscapeInputs : called = <<"like_escape", val>>
    /\ yielded = <<>>
    /\ RunInit

\* like_escape(val)
CallLikeEscape ==
    /\ pc = "new"
    /\ yielded' = like_escape(called[2])
    /\ pc' = "escaped"
    /\ UNCHANGED <<pair, input, terms, offset, limit, fidx, pending, plan, sql, contribs,
                   called, run, direct>>

NextEscape == CallLikeEscape

SpecEscape == InitEscape /\ [][NextEscape]_vars

----------------------------------------------------------------------------
(* Several Query objects of one process, their results iterators advanced  *)
(* in any interleaving.  objects[i] holds the fields of the i-th Query     *)
(* and the locals of its call of results; profiles[i] is the list that     *)
(* Query.__init__ made for it.  The registry and the grammar are the       *)
(* definitions filters and query_grammar_parse: no step assigns to them.   *)

Objects == {1, 2}

PairQueries == { <<"a">>, <<"p", "a", "t", "h", ":", "a">> }

PairRowValues ==
    { [file_id |-> 1, path |-> "p", icon |-> "i", number |-> 1],
      [file_id |-> 2, path |-> "q", icon |-> "j", number |-> 1] }

PairRowSeqs == UNION {[1..n -> PairRowValues] : n \in 0..MaxPairRows}

\* a faulty variant: one list serves as the _sql_profile of every Query
ProfileOwner_Shared(i) == 1

\* self._sql_profile = []: a list of its own for every Query
ProfileOwner(i) == i

\* the locals of results before the loop
NewPlan ==
    [fields |-> <<"files.path", "files.icon">>, tables |-> <<"files">>,
     conditions |-> <<>>, orderings |-> <<"files.path">>, arguments |-> <<>>,
     has_lines |-> FALSE]

\* the body of the inner for loop on the locals p, for contribution c of filter f
Contributed(p, f, c) ==
    LET switch == SwitchToLines(p.has_lines, f)
    IN [has_lines |-> (p.has_lines \/ switch),
        fields |-> p.fields \o (IF switch THEN LineFields ELSE <<>>) \o c[1],
        tables |-> p.tables \o (IF switch THEN LineTables ELSE <<>>),
        conditions |-> p.conditions \o (IF switch THEN LineConditions ELSE <<>>)
                       \o <<c[2]>>,
        orderings |-> p.orderings \o (IF switch THEN LineOrderings ELSE <<>>),
        arguments |-> p.arguments \o c[3]]

\* the tuples the result loop yields for the rows of the cursor
Shaped(hl, rows) ==
    IF hl THEN [g \in DOMAIN groupby(rows) |-> FileResult(groupby(rows)[g])]
    ELSE [n \in DOMAIN rows |-> RowResult(rows[n])]

InitPair ==
    /\ typed = <<>> /\ querystr = <<>>
    /\ is_case_sensitive = FALSE
    /\ should_explain = FALSE
    /\ pc = "new"
    /\ terms = <<>>
    /\ offset = 0 /\ limit = 0
    /\ fidx = 0 /\ pending = <<>>
    /\ fields = <<>> /\ tables = <<>> /\ conditions = <<>>
    /\ orderings = <<>> /\ arguments = <<>> /\ has_lines = FALSE
    /\ sql = <<>>
    /\ contribs = <<>>
    /\ called = <<>> /\ yielded = <<>>
    /\ sql_profile = <<>>
    /\ calls = 0
    /\ executed = <<>>
    /\ store_rows = <<>> /\ fetched = 0
    /\ out = <<>> /\ first = <<>>
    /\ cursors = {}
    /\ dr_term = <<>> /\ line_number = -1 /\ lookups = <<>> /\ result = <<>>
    /\ objects \in [Objects -> {[pc |-> "new", querystr |-> q, should_explain |-> e,
                                 is_case_sensitive |-> TRUE,
                                 terms |-> <<>>, plan |-> NewPlan, fidx |-> 0,
                                 pending |-> <<>>, sql |-> <<>>, rows |-> <<>>,
                                 reported |-> 0, out |-> <<>>] :
                                q \in PairQueries, e \in BOOLEAN}]
    /\ profiles = [i \in Objects |-> <<>>]

solo == <<input, pc, terms, offset, limit, fidx, pending, plan, sql, contribs,
          called, yielded, run, direct>>

\* Query.__init__ of the i-th object
PairConstruct(i) ==
    /\ objects[i].pc = "new"
    /\ \E parsed \in {query_grammar_parse(objects[i].querystr,
                                          objects[i].is_case_sensitive)} :
          objects' = [objects EXCEPT
                         ![i].pc = IF parsed.ok THEN "ready" ELSE "raised",
                         ![i].terms = IF parsed.ok THEN parsed.terms ELSE @]
    /\ profiles' = [profiles EXCEPT ![ProfileOwner(i)] = <<>>]
    /\ UNCHANGED solo

\* results of the i-th object up to the first filter of the loop
PairResultsBegin(i) ==
    /\ objects[i].pc = "ready"
    /\ objects' = [objects EXCEPT ![i].pc = "loop", ![i].plan = NewPlan,
                                  ![i].fidx = 1,
                                  ![i].pending = filter_of(ConsultedFilters[1],
                                                           objects[i].terms)]
    /\ UNCHANGED <<profiles, solo>>

\* the body of the inner for loop of the i-th object
PairContribute(i) ==
    /\ objects[i].pc = "loop"
    /\ objects[i].pending # <<>>
    /\ objects' = [objects EXCEPT
                      ![i].plan = Contributed(objects[i].plan,
                                              ConsultedFilters[objects[i].fidx],
                                              Head(objects[i].pending)),
                      ![i].pending = Tail(objects[i].pending)]
    /\ UNCHANGED <<profiles, solo>>

\* the outer for loop of the i-th object moves to the next consulted filter
PairNextFilter(i) ==
    /\ objects[i].pc = "loop"
    /\ objects[i].pending = <<>>
    /\ objects[i].fidx < Len(ConsultedFilters)
    /\ objects' = [objects EXCEPT
                      ![i].fidx = objects[i].fidx + 1,
                      ![i].pending = filter_of(ConsultedFilters[objects[i].fidx + 1],
                                               objects[i].terms)]
    /\ UNCHANGED <<profiles, solo>>

\* the i-th object fills in the SQL text and calls execute_sql
PairExecute(i) ==
    /\ objects[i].pc = "loop"
    /\ objects[i].pending = <<>>
    /\ objects[i].fidx = Len(ConsultedFilters)
    /\ \E rows \in PairRowSeqs,
          s \in {SqlText(objects[i].plan.fields, objects[i].plan.tables,
                         objects[i].plan.conditions, objects[i].plan.orderings)},
          args \in {objects[i].plan.arguments \o LimitOffset(100, 0)} :
          /\ objects' = [objects EXCEPT
                            ![i].sql = s, ![i].plan.arguments = args,
                            ![i].rows = rows,
                            ![i].pc = IF objects[i].should_explain
                                      THEN "report" ELSE "rows"]
          /\ profiles' = IF objects[i].should_explain
                         THEN [profiles EXCEPT ![ProfileOwner(i)] =
                                  Append(@, ProfileEntry(s, args, <<"explanation", i>>,
                                                         rows))]
                         ELSE profiles
    /\ UNCHANGED solo

\* for r in self._sql_report(): yield r, in the i-th object
PairYieldReport(i) ==
    /\ objects[i].pc = "report"
    /\ \E report \in {sql_report(profiles[ProfileOwner(i)])} :
          /\ objects[i].reported < Len(report)
          /\ objects' = [objects EXCEPT
                            ![i].out = Append(@, report[objects[i].reported + 1]),
                            ![i].reported = @ + 1,
                            ![i].pc = IF objects[i].reported + 1 = Len(report)
                                      THEN "rows" ELSE "report"]
    /\ UNCHANGED <<profiles, solo>>

\* the result loop of the i-th object yields its next tuple
PairYieldResult(i) ==
    /\ objects[i].pc = "rows"
    /\ \E shaped \in {Shaped(objects[i].plan.has_lines, objects[i].rows)},
          n \in {Len(objects[i].out) - objects[i].reported} :
          /\ n < Len(shaped)
          /\ objects' = [objects EXCEPT ![i].out = Append(@, shaped[n + 1])]
    /\ UNCHANGED <<profiles, solo>>

\* the iterator of the i-th object is exhausted
PairEnd(i) ==
    /\ objects[i].pc = "rows"
    /\ Len(objects[i].out) - objects[i].reported
         = Len(Shaped(objects[i].plan.has_lines, objects[i].rows))
    /\ objects' = [objects EXCEPT ![i].pc = "done"]
    /\ UNCHANGED <<profiles, solo>>

NextPair ==
    \E i \in Objects :
        \/ PairConstruct(i)
        \/ PairResultsBegin(i)
        \/ PairContribute(i)
        \/ PairNextFilter(i)
        \/ PairExecute(i)
        \/ PairYieldReport(i)
        \/ PairYieldResult(i)
        \/ PairEnd(i)

SpecPair == InitPair /\ [][NextPair]_vars

---------------------------------------------------------------------------
(* Properties of plan synthesis *)

Range(s) == {s[i] : i \in DOMAIN s}

\* the predicate and the bound arguments of a yielded tuple, by filter class
PredicateOf(f, c) ==
    IF f.cls \in {"ExistsLikeFilter", "UnionFilter"} THEN c[1] ELSE c[2]

BoundOf(f, c) ==
    IF f.cls \in {"ExistsLikeFilter", "UnionFilter"} THEN c[2] ELSE c[3]

\* the contribution was yielded by a filter whose has_lines is true
LineHaving(c) == ConsultedFilters[c.fidx].has_lines

SomeLineHaving == \E n \in DOMAIN contribs : LineHaving(contribs[n])

\* C1: once the plan is built, every contribution that any registered filter
\* yields for the term set has its predicate among the conditions and its
\* bound arguments among the arguments: no term of a registered kind is
\* ignored.
C1_EveryRegisteredFilterContributes ==
    pc = "planned" =>
        \A i \in DOMAIN filters :
            \A c \in Range(filter_of(filters[i], terms)) :
                /\ PredicateOf(filters[i], c) \in Range(conditions)
                /\ Range(BoundOf(filters[i], c)) \subseteq Range(arguments)

\* C2: the plan is line-joined if and only if a contribution came from a
\* filter with has_lines.  With none, the relations are [files], the columns
\* [path, icon] and the ordering [path]; with one or more, lines and
\* trg_index are each named once, each join predicate occurs once and
\* lines.number occurs once in the ordering, whatever the number of
\* line-having contributions.
C2_LineJoinedIffLineHaving ==
    pc \in {"loop", "planned"} =>
        IF SomeLineHaving
        THEN /\ has_lines
             /\ CountOf("files", tables) = 1
             /\ CountOf("lines", tables) = 1
             /\ CountOf("trg_index", tables) = 1
             /\ Len(tables) = 3
             /\ CountOf(<<"files.id=lines.file_id">>, conditions) = 1
             /\ CountOf(<<"lines.id=trg_index.id">>, conditions) = 1
             /\ CountOf("lines.number", orderings) = 1
             /\ orderings = <<"files.path", "lines.number">>
        ELSE /\ ~has_lines
             /\ tables = <<"files">>
             /\ fields = <<"files.path", "files.icon">>
             /\ orderings = <<"files.path">>

\* C2 witness: a finished plan with two line-having contributions.
C2_Witness ==
    /\ pc = "planned"
    /\ Cardinality({n \in DOMAIN contribs : LineHaving(contribs[n])}) >= 2
    /\ CountOf("lines", tables) = 1

\* C3: the output columns are path, icon, then the six base columns once if
\* and only if the plan is line-joined, then the extent-pair columns of the
\* contributions in the order they were processed.
C3_ColumnOrder ==
    pc \in {"loop", "planned"} =>
        fields = <<"files.path", "files.icon">>
                 \o (IF SomeLineHaving
                     THEN <<"files.encoding", "files.id as file_id",
                            "lines.id as line_id", "lines.number",
                            "trg_index.text", "extents(trg_index.contents)">>
                     ELSE <<>>)
                 \o Flatten([n \in DOMAIN contribs |-> contribs[n].flds])

\* C3 witness: a line-joined plan in which a path contribution was processed
\* before the first line-having one.
C3_Witness ==
    /\ pc = "planned"
    /\ Len(contribs) >= 2
    /\ ~LineHaving(contribs[1])
    /\ LineHaving(contribs[Len(contribs)])
    /\ Len(fields) = 8

---------------------------------------------------------------------------
(* Properties of the filters *)

Map(ts, Op(_)) == [i \in DOMAIN ts |-> Op(ts[i])]

Positive(ts) == SelectSeq(ts, LAMBDA t : t.arg # <<>> /\ ~t["not"])

Negative(ts) == SelectSeq(ts, LAMBDA t : t.arg # <<>> /\ t["not"])

\* the value the trigram index is asked for, by kind, sign and case flag
SchemeArg(kind, t) ==
    <<CASE kind = "text" /\ ~t["not"] /\ t.case_sensitive  -> "substr-extents:"
        [] kind = "text" /\ ~t["not"] /\ ~t.case_sensitive -> "isubstr-extents:"
        [] kind = "text" /\ t["not"] /\ t.case_sensitive   -> "substr:"
        [] kind = "text" /\ t["not"] /\ ~t.case_sensitive  -> "isubstr:"
        [] kind = "regexp" /\ ~t["not"]                    -> "regexp-extents:"
        [] kind = "regexp" /\ t["not"]                     -> "regexp:">> \o t.arg

TextArg(t) == SchemeArg("text", t)

RegexpArg(t) == SchemeArg("regexp", t)

PathArg(t) == <<"%">> \o like_escape(t.arg) \o <<"%">>

NonEmpty(ts) == SelectSeq(ts, LAMBDA t : t.arg # <<>>)

ContributedArgs == Flatten([n \in DOMAIN contribs |-> contribs[n].args])

\* the arguments the filters bound whose first token is one of the prefixes
KindArgs(prefixes) == SelectSeq(ContributedArgs, LAMBDA a : Head(a) \in prefixes)

\* C4 as stated: the SQL text has as many placeholders as the filters bound
\* arguments plus two, the arguments are bound in the order the
\* contributions were processed, the arguments of a kind are bound in the
\* order of the terms of that kind, and limit and offset come last.
C4_ArgumentsInTermOrder ==
    pc = "planned" =>
        /\ CountOf("?", sql) = Len(ContributedArgs) + 2
        /\ arguments = ContributedArgs \o <<limit, offset>>
        /\ KindArgs({"%"}) = Map(Get(terms, "path"), PathArg)
        /\ KindArgs({"substr-extents:", "isubstr-extents:", "substr:", "isubstr:"})
              = Map(NonEmpty(Get(terms, "text")), TextArg)
        /\ KindArgs({"regexp-extents:", "regexp:"})
              = Map(NonEmpty(Get(terms, "regexp")), RegexpArg)

\* C4 as amended: the SQL text has as many placeholders as the filters bound
\* arguments plus two; every contribution binds as many arguments as its
\* predicate has placeholders; the arguments are bound in the order the
\* contributions were processed, which is the path terms in term order, the
\* positive text terms, the positive regexp terms, then the negated text
\* terms and the negated regexp terms of the single NOT EXISTS; limit and
\* offset come last.
C4_ArgumentsInContributionOrder ==
    pc = "planned" =>
        /\ CountOf("?", sql) = Len(ContributedArgs) + 2
        /\ CountOf("?", sql) = Len(arguments)
        /\ \A n \in DOMAIN contribs :
              CountOf("?", contribs[n].cond) = Len(contribs[n].args)
        /\ arguments = Map(Get(terms, "path"), PathArg)
                       \o Map(Positive(Get(terms, "text")), TextArg)
                       \o Map(Positive(Get(terms, "regexp")), RegexpArg)
                       \o Map(Negative(Get(terms, "text")), TextArg)
                       \o Map(Negative(Get(terms, "regexp")), RegexpArg)
                       \o <<limit, offset>>
        /\ arguments[Len(arguments) - 1] = limit
        /\ arguments[Len(arguments)] = offset

\* C4 witness: a finished plan for a negated text term typed before a
\* positive one.
C4_Witness ==
    /\ pc = "planned"
    /\ Len(Get(terms, "text")) = 2
    /\ terms["text"][1]["not"] /\ ~terms["text"][2]["not"]
    /\ Len(arguments) = 4
    /\ limit # offset

CalledFilter(i) == pc = "called" /\ called = <<"filter", i>>

\* C5: the trilite filter yields one "trg_index.contents MATCH ?" per
\* positive non-empty text or regexp term, bound to the extents scheme of the
\* term, then one NOT EXISTS if there is a negative term, with one
\* disjunct and one non-extents argument per negative term, and none if
\* there is no negative term.
C5_TriliteContributions ==
    CalledFilter(3) =>
        LET posT == Positive(Get(terms, "text"))
            posR == Positive(Get(terms, "regexp"))
            negT == Negative(Get(terms, "text"))
            negR == Negative(Get(terms, "regexp"))
            p == Len(posT) + Len(posR)
            n == Len(negT) + Len(negR)
        IN /\ Len(yielded) = p + (IF n >= 1 THEN 1 ELSE 0)
           /\ \A i \in DOMAIN posT :
                 yielded[i] = << <<>>, <<"trg_index.contents MATCH ", "?">>,
                                 <<TextArg(posT[i])>> >>
           /\ \A i \in DOMAIN posR :
                 yielded[Len(posT) + i] =
                     << <<>>, <<"trg_index.contents MATCH ", "?">>,
                        <<RegexpArg(posR[i])>> >>
           /\ n >= 1 =>
                 /\ yielded[p + 1][1] = <<>>
                 /\ Head(yielded[p + 1][2]) =
                       "NOT EXISTS (SELECT 1 FROM trg_index WHERE trg_index.id=lines.id AND ("
                 /\ CountOf("trg_index.contents MATCH ", yielded[p + 1][2]) = n
                 /\ CountOf("?", yielded[p + 1][2]) = n
                 /\ CountOf(" OR ", yielded[p + 1][2]) = n - 1
                 /\ yielded[p + 1][3] = Map(negT, TextArg) \o Map(negR, RegexpArg)

\* C5 witness: the trilite filter applied to one positive and one negative
\* term.
C5_Witness ==
    /\ CalledFilter(3)
    /\ Len(yielded) = 2
    /\ Len(yielded[1][3]) = 1
    /\ Len(Negative(Get(terms, "text")) \o Negative(Get(terms, "regexp"))) = 1

\* C6: a structural filter binds the raw argument to "qual_column = ?" for a
\* qualified term, and "%" + like_escape(arg) + "%" to
\* "like_column LIKE ? ESCAPE" for an unqualified one.
C6_UnqualifiedNameIsContained ==
    \A i \in DOMAIN filters :
        (CalledFilter(i) /\ filters[i].cls = "ExistsLikeFilter") =>
            \A j \in DOMAIN yielded :
                LET t == terms[filters[i].param][j]
                IN IF t.qualified
                   THEN /\ yielded[j][2] = <<t.arg>>
                        /\ CountOf(filters[i].qual_name, yielded[j][1]) = 1
                        /\ CountOf(" = ", yielded[j][1]) = 1
                   ELSE /\ yielded[j][2] = <<PathArg(t)>>
                        /\ CountOf(filters[i].like_name, yielded[j][1]) = 1
                        /\ CountOf(" LIKE ", yielded[j][1]) = 1

CalledExtents(i) == pc = "called" /\ Len(called) = 3 /\ called[2] = i

\* C7: for each term of its kind a union filter yields one predicate, the
\* parenthesised OR of the inner filters' predicates for that term, bound to
\* the inner filters' arguments in inner-filter order, one per inner filter;
\* its extents are the set union of the inner filters' extents, each once,
\* in ascending order.
C7_UnionOfInnerFilters ==
    \A i \in DOMAIN filters :
        filters[i].cls = "UnionFilter" =>
            LET f == filters[i]
                inner(k) == ExistsLikeFilter_filter(f.filters[k], terms)
                innerHits(k) == Range(Flatten(ExistsLikeFilter_extents(
                                        f.filters[k], terms, called[3], FileId)))
            IN /\ CalledFilter(i) =>
                    /\ Len(yielded) = Len(terms[f.param])
                    /\ \A j \in DOMAIN yielded :
                          /\ Head(yielded[j][1]) = "("
                          /\ yielded[j][1][Len(yielded[j][1])] = ")"
                          /\ CountOf(" OR ", yielded[j][1]) = Len(f.filters) - 1
                          /\ yielded[j][1] =
                                <<"(">> \o Join(<<" OR ">>,
                                                [k \in DOMAIN f.filters |-> inner(k)[j][1]])
                                        \o <<")">>
                          /\ Len(yielded[j][2]) = Len(f.filters)
                          /\ \A k \in DOMAIN f.filters :
                                <<yielded[j][2][k]>> = inner(k)[j][2]
               /\ CalledExtents(i) =>
                    /\ Len(yielded) = 1
                    /\ Range(yielded[1]) = UNION {innerHits(k) : k \in DOMAIN f.filters}
                    /\ \A a, b \in DOMAIN yielded[1] :
                          a < b => HitLess(yielded[1][a], yielded[1][b])

\* C7 witness: the extents of a union filter whose inner filters found the
\* same extent, and more than one extent altogether.
C7_Witness ==
    \E i \in DOMAIN filters :
        /\ filters[i].cls = "UnionFilter"
        /\ CalledExtents(i)
        /\ Len(yielded[1]) >= 2
        /\ Len(UnionFilter_builder(filters[i], terms, called[3], FileId))
              > Len(yielded[1])

\* C8: for every path term the path filter contributes one predicate on
\* files.path bound to "%" + like_escape(arg) + "%", LIKE for a positive
\* term and NOT LIKE for a negated one, and no extent columns; a query of
\* path terms only keeps the plan on the files table alone.
C8_PathFilter ==
    LET mine == Get(terms, "path")
        Contribution(t) ==
            << <<>>,
               <<(IF t["not"] THEN "files.path NOT LIKE " ELSE "files.path LIKE "),
                 "?", " ESCAPE \"\\\" ">>,
               << <<"%">> \o like_escape(t.arg) \o <<"%">> >> >>
        fromPath == SelectSeq(contribs, LAMBDA c : c.fidx = 1)
    IN /\ CalledFilter(1) => yielded = Map(mine, Contribution)
       /\ pc = "planned" =>
             /\ [n \in DOMAIN fromPath |->
                   <<fromPath[n].flds, fromPath[n].cond, fromPath[n].args>>]
                = Map(mine, Contribution)
             /\ DOMAIN terms = {"path"} =>
                   /\ ~has_lines
                   /\ tables = <<"files">>
                   /\ fields = <<"files.path", "files.icon">>
                   /\ Len(conditions) = Len(mine)

\* C8 witness: a finished plan for a negated and a positive path term only.
C8_Witness ==
    /\ pc = "planned"
    /\ DOMAIN terms = {"path"}
    /\ Len(contribs) = 2
    /\ terms["path"][1]["not"] /\ ~terms["path"][2]["not"]

KindOf(x) == IF x[3] = "" THEN "text" ELSE x[3]

\* the argument a typed term stands for: "" is the empty quoted text, and a
\* plus in front of bare text is part of the text
ArgOf(x) ==
    (IF x[3] = "" /\ x[2] THEN <<"+">> ELSE <<>>)
    \o (IF x[4] = <<"\"", "\"">> THEN <<>> ELSE x[4])

\* C9: the flags of a term are those of its prefixes: "-" sets not, "+" in
\* front of a filter name sets qualified, both are false otherwise; every
\* term carries arg, not, qualified and case_sensitive; a text term is
\* never qualified.
C9_FlagsFromPrefixes ==
    pc = "ready" =>
        /\ \A k \in DOMAIN terms : \A j \in DOMAIN terms[k] :
              /\ DOMAIN terms[k][j] = {"arg", "not", "qualified", "case_sensitive"}
              /\ terms[k][j].case_sensitive = is_case_sensitive
              /\ k = "text" => ~terms[k][j].qualified
        /\ typed # <<>> =>
              /\ DOMAIN terms = {KindOf(typed[n]) : n \in DOMAIN typed}
              /\ \A k \in DOMAIN terms :
                    LET ofKind == SelectSeq(typed, LAMBDA x : KindOf(x) = k)
                    IN /\ Len(terms[k]) = Len(ofKind)
                       /\ \A j \in DOMAIN ofKind :
                             /\ terms[k][j]["not"] = ofKind[j][1]
                             /\ terms[k][j].qualified = (ofKind[j][2] /\ k # "text")
                             /\ terms[k][j].arg = ArgOf(ofKind[j])

\* C9 witness: a parsed query with a term typed with both prefixes and one
\* with none.
C9_Witness ==
    /\ pc = "ready"
    /\ Len(typed) = 2
    /\ "function" \in DOMAIN terms
    /\ Len(terms["function"]) = 2
    /\ terms["function"][1]["not"] /\ terms["function"][1].qualified
    /\ ~terms["function"][2]["not"] /\ ~terms["function"][2].qualified

\* the end of a quoted text as described: the first quote after the opening
\* one that is not escaped and is followed by a space or by the end of the
\* input, or else the end of the input
ClaimedQuoteEnd(s) ==
    LET closers == {i \in 2..Len(s) :
                      /\ s[i] = "\""
                      /\ s[i - 1] # "\\"
                      /\ (i = Len(s) \/ s[i + 1] = " ")}
    IN IF closers = {} THEN Len(s) + 1 ELSE Min(closers)

ClaimedQuotedArg(s) ==
    Replace(SubSeq(s, 2, ClaimedQuoteEnd(s) - 1), <<"\\", "\"">>, <<"\"">>)

\* C10: the argument of a quoted text term runs from after the opening
\* quote to the first quote followed by a space or the end of the input, or
\* to the end of the input; escaped quotes appear as bare quotes.
C10_QuotedTextEndsAtFirstCloser ==
    (pc = "ready" /\ Len(querystr) >= 1 /\ querystr[1] = "\"") =>
        /\ "text" \in DOMAIN terms
        /\ terms["text"][1].arg = ClaimedQuotedArg(querystr)

---------------------------------------------------------------------------
(* Properties of the filter names *)

\* C11: "N:x" parses to one term of kind N with argument x for every name N
\* of the registry, also when a shorter name of the registry is a prefix of
\* N; every kind of a parsed term set is text or a name of the registry.
C11_FilterNamesParseWhole ==
    pc = "ready" =>
        /\ \A k \in DOMAIN terms : k = "text" \/ k \in Range(AllNames)
        /\ (Len(typed) = 1 /\ typed[1][3] # "" /\ ~typed[1][1] /\ ~typed[1][2]
            /\ typed[1][4] # <<"\"", "\"">>) =>
              /\ DOMAIN terms = {typed[1][3]}
              /\ Len(terms[typed[1][3]]) = 1
              /\ terms[typed[1][3]][1].arg = typed[1][4]
              /\ querystr = Chars[typed[1][3]] \o <<":">> \o typed[1][4]

\* C11 witness: a parsed term whose kind has a shorter name of the registry
\* as a prefix.
C11_Witness ==
    /\ pc = "ready"
    /\ Len(typed) = 1
    /\ \E N \in DOMAIN terms : \E m \in DOMAIN AllNames :
          /\ AllNames[m] # N
          /\ StartsWith(Chars[N], 1, Chars[AllNames[m]])
          /\ terms[N][1].arg = <<"a">>

\* C12: a term written "re:X" is a regexp term with argument X and the
\* trilite filter yields for it what it yields for "regexp:X", a MATCH bound
\* to "regexp-extents:" + X.
C12_LegacyReIsRegexp ==
    querystr = <<"r", "e", ":", "a">> =>
        /\ pc = "ready" => DOMAIN terms \subseteq {"re", "regexp"}
        /\ CalledFilter(3) =>
              yielded = << << <<>>, <<"trg_index.contents MATCH ", "?">>,
                              << <<"regexp-extents:", "a">> >> >> >>

---------------------------------------------------------------------------
(* Properties of direct_result *)

InDirect == pc \in {"direct", "returned"} /\ lookups # <<>>

LastLookup == lookups[Len(lookups)]

\* the lookups in the order described, the qualified ones only for a term
\* containing "::"
DescribedOrder ==
    SelectSeq(<<"files.path", "types.name =", "functions.name =",
                "types.qualname LIKE", "functions.qualname LIKE",
                "types.name LIKE", "functions.name LIKE">>,
              LAMBDA s : s \in {"types.qualname LIKE", "functions.qualname LIKE"}
                            => Contains(dr_term, <<":", ":">>))

\* C13: direct_result looks up file, type by name, function by name, then,
\* for a term containing "::" only, type by qualname and function by
\* qualname prefix, then type and function by name LIKE; a lookup with zero
\* or two rows is followed by the next one, the first lookup with one row
\* gives the result and is the last.
C13_DirectLookupOrder ==
    InDirect =>
        /\ Len(lookups) <= Len(DescribedOrder)
        /\ \A n \in DOMAIN lookups : lookups[n].step = DescribedOrder[n]
        /\ \A n \in 1..(Len(lookups) - 1) : lookups[n].nrows \in {0, 2}
        /\ \A n \in DOMAIN lookups :
              lookups[n].step = "functions.qualname LIKE"
                 => lookups[n].params = <<dr_term \o <<"%">> >>
        /\ pc = "direct" =>
              LastLookup.nrows \in {0, 2} /\ Len(lookups) < Len(DescribedOrder)
        /\ pc = "returned" =>
              IF LastLookup.nrows = 1
              THEN result # <<>> /\ result[1][1] = "p"
              ELSE result = <<>> /\ Len(lookups) = Len(DescribedOrder)

\* C13 witness: the fifth lookup, function by qualname prefix, found one
\* row and direct_result returned it.
C13_Witness ==
    /\ pc = "returned"
    /\ Len(lookups) = 5
    /\ LastLookup.step = "functions.qualname LIKE"
    /\ result = << <<"p", 7>> >>

LastColon(t) == CHOOSE i \in DOMAIN t : t[i] = ":" /\ \A j \in (i + 1)..Len(t) : t[j] # ":"

\* C14: a single term matching "^.*:[0-9]+$" is split into the name before
\* its last colon and the line number after it, also when the name holds a
\* colon; the file lookup uses the name and a unique file gives (path, line
\* number); any other term is looked up whole and gives (path, 1).
C14_LineNumberSplit ==
    InDirect =>
        LET t == single_term(terms)[1]
            name == IF line_number_match(t) THEN SubSeq(t, 1, LastColon(t) - 1) ELSE t
            line == IF line_number_match(t)
                    THEN int(SubSeq(t, LastColon(t) + 1, Len(t))) ELSE 1
        IN /\ lookups[1].step = "files.path"
           /\ lookups[1].params = <<name, <<"%/">> \o name>>
           /\ lookups[1].nrows = 1 => result = << <<"p", line>> >>

\* C15: direct_result returns None when every lookup found zero or two
\* rows, and what it returns is the one row of a lookup that found one.
C15_AmbiguousGivesNone ==
    (pc = "returned" /\ lookups # <<>>) =>
        /\ (\A n \in DOMAIN lookups : lookups[n].nrows \in {0, 2}) => result = <<>>
        /\ result # <<>> =>
              /\ LastLookup.nrows = 1
              /\ result[1][1] = "p"
              /\ result[1][2] \in {1, 7, line_number}

\* C15 witness: every lookup was made, some found nothing and some two
\* rows, and None was returned.
C15_Witness ==
    /\ pc = "returned"
    /\ Len(lookups) = 7
    /\ \E n, m \in DOMAIN lookups : lookups[n].nrows = 0 /\ lookups[m].nrows = 2
    /\ result = <<>>

OneTextTerm == DOMAIN terms = {"text"} /\ Len(terms["text"]) = 1

\* C16: single_term is the argument of the term exactly when the term set
\* has the kind text alone and one term of it, and None otherwise; when it
\* is None or empty, direct_result returns None with no cursor opened and no
\* lookup made.
C16_SingleTerm ==
    pc \in {"ready", "direct", "returned"} =>
        /\ single_term(terms) = IF OneTextTerm THEN <<terms["text"][1].arg>> ELSE <<>>
        /\ pc = "direct" => OneTextTerm /\ terms["text"][1].arg # <<>>
        /\ pc = "returned" =>
              IF OneTextTerm /\ terms["text"][1].arg # <<>>
              THEN lookups # <<>> /\ <<"direct", 0>> \in cursors
              ELSE result = <<>> /\ lookups = <<>> /\ cursors = {}

\* C16 witness: direct_result returned None at once for a query of two text
\* terms.
C16_Witness ==
    /\ pc = "returned"
    /\ "text" \in DOMAIN terms
    /\ Len(terms["text"]) = 2
    /\ lookups = <<>>
    /\ result = <<>>

---------------------------------------------------------------------------
(* Properties of the result stream *)

IsReport(r) == r.icon = ""

\* the places where a file begins in the rows of this call
RunStarts == {i \in DOMAIN Rows : i = 1 \/ Rows[i].file_id # Rows[i - 1].file_id}

\* C17: a plan without lines yields one tuple (icon, path, []) per row, in
\* row order; a plan with lines yields one tuple per maximal run of
\* consecutive rows of one file, its lines in row order, so adjacent tuples
\* are of different files and there are as many lines as rows.
C17_ResultShaping ==
    pc = "done" =>
        IF ~has_lines
        THEN /\ Len(Results) = Len(Rows)
             /\ \A n \in DOMAIN Rows :
                   Results[n] = [icon |-> Rows[n].icon, path |-> Rows[n].path,
                                 lines |-> <<>>]
        ELSE /\ Len(Results) = Cardinality(RunStarts)
             /\ Flatten([n \in DOMAIN Results |-> Results[n].lines])
                   = [n \in DOMAIN Rows |-> Rows[n].number]
             /\ \A n \in DOMAIN Results :
                   LET at == Len(Flatten([m \in 1..(n - 1) |-> Results[m].lines])) + 1
                   IN /\ at \in RunStarts
                      /\ Results[n].lines # <<>>
                      /\ Results[n].icon = Rows[at].icon
                      /\ Results[n].path = Rows[at].path
                      /\ \A k \in at..(at + Len(Results[n].lines) - 1) :
                            Rows[k].file_id = Rows[at].file_id
             /\ \A n \in 1..(Len(Results) - 1) : Results[n].path # Results[n + 1].path

\* C17 witness: a finished call with lines whose three rows made two tuples.
C17_Witness ==
    /\ pc = "done"
    /\ has_lines
    /\ Len(Rows) = 3
    /\ Len(Results) = 2

\* C18: with profiling every report row comes before every result row and
\* the statement is fully fetched before the first report row; without
\* profiling there is no report row and the statement is executed once.
C18_ReportBeforeResults ==
    /\ \A i, j \in DOMAIN out : (i < j /\ IsReport(out[j])) => IsReport(out[i])
    /\ (should_explain /\ pc \in {"report", "rows", "done", "abandoned"}) =>
          /\ fetched = Len(Rows)
          /\ \A n \in DOMAIN out : n <= Len(Report) <=> IsReport(out[n])
    /\ ~should_explain =>
          /\ \A n \in DOMAIN out : ~IsReport(out[n])
          /\ sql_profile = <<>>
          /\ Len(executed) <= 1
          /\ pc \in {"rows", "done", "abandoned"} => executed = <<sql>>

\* C18 witness: a finished call with profiling that yielded report rows and
\* result rows.
C18_Witness ==
    /\ pc = "done"
    /\ should_explain
    /\ \E i, j \in DOMAIN out : IsReport(out[i]) /\ ~IsReport(out[j])
    /\ Len(executed) = 2

\* C19: a second call of results on the same Query, with the same arguments
\* and store contents, yields the sequence the first call yielded.
C19_SecondCallYieldsTheSame ==
    (pc = "done" /\ calls >= 2 /\ offset = first[1].offset) => out = first[1].out

\* C20: no cursor opened by results or direct_result is left unreleased
\* when the call is over: results exhausted, abandoned or failed,
\* direct_result returned or failed.
C20_CursorsReleased ==
    pc \in {"done", "abandoned", "failed", "returned"} => cursors = {}

---------------------------------------------------------------------------
(* Further properties of the filters and the grammar *)

\* the term set with the qualified bit of every term set to b
WithQualified(ts, b) ==
    [k \in DOMAIN ts |-> [j \in DOMAIN ts[k] |-> [ts[k][j] EXCEPT !.qualified = b]]]

\* C23: for the kinds path, ext, text and regexp the contributions of the
\* filter are the same whatever the qualified bit of the terms, and so is
\* the plan, which is made of the contributions of the path and trilite
\* filters.
C23_QualifiedNotObservable ==
    /\ \A i \in 1..3 :
          CalledFilter(i) =>
              /\ yielded = filter_of(filters[i], WithQualified(terms, TRUE))
              /\ yielded = filter_of(filters[i], WithQualified(terms, FALSE))
    /\ pc = "planned" =>
          \A b \in BOOLEAN :
              [n \in DOMAIN contribs |->
                  <<contribs[n].flds, contribs[n].cond, contribs[n].args>>]
              = Flatten([k \in DOMAIN ConsultedFilters |->
                           filter_of(ConsultedFilters[k], WithQualified(terms, b))])

\* C23 witness: the path filter applied to a qualified path term.
C23_Witness ==
    /\ CalledFilter(1)
    /\ \E j \in DOMAIN terms["path"] : terms["path"][j].qualified
    /\ yielded # <<>>

\* C25: no query string makes the construction raise; the empty string
\* gives no term, a lone "-" or "+" and a filter name followed by ":" alone
\* are bare text, and an unclosed quote gives the text after it.
C25_GrammarIsTotal ==
    /\ pc # "raised"
    /\ pc = "ready" =>
          /\ querystr = <<>> => DOMAIN terms = {}
          /\ querystr \in {<<"-">>, <<"+">>, <<"p", "a", "t", "h", ":">>} =>
                terms = ("text" :> <<[arg |-> querystr, not |-> FALSE,
                                      qualified |-> FALSE,
                                      case_sensitive |-> is_case_sensitive]>>)
          /\ querystr = <<"\"", "a">> =>
                DOMAIN terms = {"text"} /\ terms["text"][1].arg = <<"a">>
          /\ querystr # <<>> /\ (\E n \in DOMAIN querystr : querystr[n] # " ") =>
                DOMAIN terms # {}

\* C25 witness: a filter name followed by ":" alone was parsed as text.
C25_Witness ==
    /\ pc = "ready"
    /\ querystr = <<"p", "a", "t", "h", ":">>
    /\ DOMAIN terms = {"text"}

\* the truth of a predicate of a union filter when the k-th inner filter
\* matches a file iff m[k]: the OR of its EXISTS and NOT EXISTS parts
UnionTruth(pred, m) ==
    LET heads == SelectSeq(pred, LAMBDA t : t \in {"EXISTS (", "NOT EXISTS ("})
    IN \E k \in DOMAIN heads : IF heads[k] = "NOT EXISTS (" THEN ~m[k] ELSE m[k]

\* C26: the predicate a union filter yields for a negated term is true of a
\* file exactly when no inner filter matches it.
C26_NegatedUnionExcludesAnyMatch ==
    \A i \in DOMAIN filters :
        (filters[i].cls = "UnionFilter" /\ CalledFilter(i)) =>
            \A j \in DOMAIN yielded :
                terms[filters[i].param][j]["not"] =>
                    \A m \in [DOMAIN filters[i].filters -> BOOLEAN] :
                        UnionTruth(yielded[j][1], m)
                            = ~(\E k \in DOMAIN m : m[k])

\* C27: the extents of a structural filter are all the rows of the store
\* whose start and end are not None, those with start 0 too.
C27_EveryNonNullExtent ==
    \A i \in DOMAIN filters :
        (filters[i].cls = "ExistsLikeFilter" /\ CalledExtents(i)) =>
            LET f == filters[i]
                mine == terms[f.param]
                rows == Flatten([j \in DOMAIN mine |->
                                   called[3][ExtentsQuery(f, mine[j], FileId)]])
                nonNull == SelectSeq(rows, LAMBDA r : r[1] # None /\ r[2] # None)
            IN /\ Len(yielded) = 1
               /\ yielded[1] = [n \in DOMAIN nonNull |->
                                  <<nonNull[n][1], nonNull[n][2], <<>> >>]

\* C28: a query of one negated text term has no single term, and
\* direct_result returns None for it without any lookup.
C28_NegatedTermHasNoDirectResult ==
    (pc \in {"ready", "direct", "returned", "failed"}
     /\ OneTextTerm /\ terms["text"][1]["not"]) =>
        /\ single_term(terms) = <<>>
        /\ pc # "direct"
        /\ lookups = <<>>
        /\ pc = "returned" => result = <<>>

\* C21: when the trigram engine rejects the pattern of a regexp term, the
\* call of results is not over: the statement for the other terms is
\* executed and the call goes on to yield their results.
C21_RejectionIsPerTerm ==
    (pc = "aborted" /\ RegexpArgs # <<>> /\ Len(contribs) > Len(RegexpArgs)) =>
        ENABLED (Execute \/ YieldReport \/ YieldFile \/ YieldRow \/ ResultsEnd)

\* the pattern a LIKE with ESCAPE '\' reads in a text: a backslash makes the
\* next character a literal, a bare _ matches one character, a bare %
\* matches any run, every other character is a literal
RECURSIVE LikePattern(_)
LikePattern(s) ==
    IF s = <<>> THEN <<>>
    ELSE IF s[1] = "\\"
         THEN IF Len(s) = 1 THEN << <<"dangling">> >>
              ELSE << <<"literal", s[2]>> >> \o LikePattern(SubSeq(s, 3, Len(s)))
         ELSE << CASE s[1] = "_" -> <<"one">>
                   [] s[1] = "%" -> <<"any">>
                   [] OTHER -> <<"literal", s[1]>> >> \o LikePattern(Tail(s))

\* what the user's value asks for: ? is one character, * is any run, every
\* other character of the value stands for itself
GlobPattern(val) ==
    [i \in DOMAIN val |-> CASE val[i] = "?" -> <<"one">>
                            [] val[i] = "*" -> <<"any">>
                            [] OTHER -> <<"literal", val[i]>>]

\* the five replacements applied to one character
EscapedChar(c) ==
    CASE c = "\\" -> <<"\\", "\\">>
      [] c = "_" -> <<"\\", "_">>
      [] c = "%" -> <<"\\", "%">>
      [] c = "?" -> <<"_">>
      [] c = "*" -> <<"%">>
      [] OTHER -> <<c>>

\* C24: like_escape rewrites each character of its input by itself (\ to
\* \\, _ to \_, % to \%, ? to _, * to %), so that read as a LIKE pattern
\* with escape character \ its output has every \, _ and % of the input as
\* an escaped literal and a bare _ or % exactly where the input had ? or *.
C24_LikeEscapeEscapes ==
    pc = "escaped" =>
        /\ yielded = Flatten([i \in DOMAIN called[2] |-> EscapedChar(called[2][i])])
        /\ LikePattern(yielded) = GlobPattern(called[2])

C24_Witness ==
    /\ pc = "escaped"
    /\ called[2] = <<"\\", "_", "?">>
    /\ yielded = <<"\\", "\\", "\\", "_", "_">>

\* the contributions of the consulted filters to the terms ts, each with
\* the filter it comes from
AllContributions(ts) ==
    Flatten([k \in DOMAIN ConsultedFilters |->
        [n \in DOMAIN filter_of(ConsultedFilters[k], ts) |->
            <<ConsultedFilters[k], filter_of(ConsultedFilters[k], ts)[n]>>]])

RECURSIVE FoldPlan(_, _)
FoldPlan(p, cs) ==
    IF cs = <<>> THEN p
    ELSE FoldPlan(Contributed(p, Head(cs)[1], Head(cs)[2]), Tail(cs))

\* what the results iterator of object i yields when no other Query exists
\* in the process and the store answers its statement with the same rows
Alone(i) ==
    LET o == objects[i]
        ts == query_grammar_parse(o.querystr, o.is_case_sensitive).terms
        p == FoldPlan(NewPlan, AllContributions(ts))
        s == SqlText(p.fields, p.tables, p.conditions, p.orderings)
        args == p.arguments \o LimitOffset(100, 0)
        report == IF o.should_explain
                  THEN sql_report(<<ProfileEntry(s, args, <<"explanation", i>>, o.rows)>>)
                  ELSE <<>>
    IN [sql |-> s, arguments |-> args, out |-> report \o Shaped(p.has_lines, o.rows)]

\* C22: two Query objects whose results iterators are advanced in any
\* interleaving each build the statement and yield the tuples they build
\* and yield alone: at every moment what an iterator has yielded is the
\* beginning of its output when run alone, and all of it when exhausted.
C22_InterleavingChangesNothing ==
    \A i \in DOMAIN objects :
        objects[i].pc \in {"report", "rows", "done"} =>
            /\ objects[i].sql = Alone(i).sql
            /\ objects[i].plan.arguments = Alone(i).arguments
            /\ Len(objects[i].out) <= Len(Alone(i).out)
            /\ objects[i].out = SubSeq(Alone(i).out, 1, Len(objects[i].out))
            /\ objects[i].pc = "done" => objects[i].out = Alone(i).out

\* both iterators are in the middle of their output, with profiling, one
\* on a plan with lines and one without
C22_Witness ==
    /\ DOMAIN objects = Objects
    /\ \A i \in Objects :
          /\ objects[i].should_explain
          /\ objects[i].pc = "rows"
          /\ objects[i].out # <<>>
          /\ Len(objects[i].out) < Len(Alone(i).out)
    /\ objects[1].plan.has_lines /\ ~objects[2].plan.has_lines

=============================================================================
